---- MODULE Spec2Model ----
(***************************************************************************)
(* Model of the DOB BIS resilient-fetch subsystem:                         *)
(*   app/scrapers/dob_scraper.py  CircuitBreaker, DOBScraper.get_dob_status *)
(*   app/browser_manager.py       BrowserManager, USER_AGENTS               *)
(* Logical requests are asyncio tasks: every action below is the code that  *)
(* runs between two suspension points (await) of one task.                  *)
(***************************************************************************)
EXTENDS Integers, FiniteSets, Sequences, TLC

(* ------------------------------ bounds --------------------------------- *)
\* number of logical requests (asyncio tasks) that may be in flight together
NumRequests == 2
\* size of the identity pool USER_AGENTS (5 entries in browser_manager.py)
NumAgents == 2
\* the wall clock is observed in whole seconds 1..MaxTime
MaxTime == 4
\* CircuitBreaker(failure_threshold=5, cooldown_seconds=300), scaled down
failure_threshold == 2
cooldown_seconds == 2
\* Settings.dob_retry_count is read from the environment: 0..MaxRetry
MaxRetry == 2
\* browser processes launched over the life of the process: at most MaxLaunch
MaxLaunch == 2
\* timeline events extracted from one history page: 0..MaxEvents
MaxEvents == 2
\* browser contexts (and pages) created over the life of the process: at most
MaxSessions == 3
\* characters of the street and of the house number a client sends: at most
MaxStreetLen == 4
MaxHouseLen == 2
\* DOBStatus.open_violations of a scored property: 0..MaxViolations
MaxViolations == 6
\* complaints of one kind in NYC311Data: 0..MaxComplaints
MaxComplaints == 3
\* calendar months the process lives through: 1..MaxMonth
MaxMonth == 2
\* APIKeyData.monthly_limit (100 for the FREE tier), scaled down
monthly_limit == 2
\* <td> cells of one row of a violations table: 0..MaxCells
MaxCells == 4
\* RateLimitMiddleware._window_size (60.0 seconds), scaled down
_window_size == 2
\* the requests per minute of an identifier (10 for an address and for a key of
\* the FREE tier), scaled down
RateLimit == 2

Requests == 1..NumRequests

\* Python's None for an Optional[float]: the empty tuple; a value t is <<t>>
None == <<>>
Some(t) == <<t>>

VARIABLES
    now,            \* time.time(), in seconds
    dob_retry_count,\* Settings.dob_retry_count
    USER_AGENTS,    \* the identity pool of browser_manager.py
    breaker,        \* the module-level _circuit_breaker
    engine,         \* BrowserManager: _instance and its fields
    pc,             \* per request: the suspension point get_dob_status is at
    attempt,        \* per request: the loop variable of the retry loop
    used_agents,    \* per request: used_agents
    last_error,     \* per request: last_error
    exit,           \* per request: how the body of `async with get_page` ended
    result,         \* per request: the DOBStatus returned
    open_ctx,       \* per request: browser contexts it created and has not closed
    open_page,      \* per request: pages it created and has not closed
    hist,           \* per request: what the current call has done (observation only)
    obs,            \* what the breaker has been told so far (observation only)
    lock,           \* BrowserManager._lock: the task that holds it (0: free)
    browsers,       \* per browser process launched: close() calls made on its handle
    op,             \* per task: the BrowserManager method it is calling
    handle,         \* per task: the Browser its pending new_context was called on
    closed,         \* a close() call has returned (observation only)
    events,         \* per request: the events list of get_violation_history
    probe,          \* the latest call made from outside get_dob_status: the
                    \* method, its arguments and the value it returned
    session,        \* per task: the context and the page of its get_page call
    made,           \* contexts and pages the browser has created so far
    app,            \* main.py: the module-level _browser_manager and how far the
                    \* lifespan of the application has got
    limiter,        \* RateLimitMiddleware: _requests, the locals of its dispatch
                    \* calls, and what it has admitted (observation only)
    keys            \* APIKeyManager: the APIKeyData of one key, the calendar
                    \* month, and what was served and counted (observation only)

\* what is set when the process starts and never changes
config == <<dob_retry_count, USER_AGENTS>>

\* what the engine calls and get_violation_history add to a request's state
evars == <<lock, op, handle, closed, events>>

\* what the lifespan of the application and its middleware add
web == <<app, limiter, keys>>

\* what the calls made from outside get_dob_status and the sessions add
extra == <<probe, session, made, web>>

vars == <<now, config, breaker, engine, pc, attempt, used_agents,
          last_error, exit, result, open_ctx, open_page, hist, obs,
          browsers, evars, extra>>

(* --------------------------- CircuitBreaker ----------------------------- *)
\* CircuitBreaker.__init__
CircuitBreaker ==
    [state |-> "CLOSED", consecutive_failures |-> 0, last_failure_time |-> None]

\* a record_success that resets the counter and forgets the state
record_success_counter_only(b) ==
    [b EXCEPT !.consecutive_failures = 0]

\* a record_success that closes the breaker and keeps the counter
record_success_state_only(b) ==
    [b EXCEPT !.state = "CLOSED"]

\* CircuitBreaker.record_success
record_success(b) ==
    [b EXCEPT !.consecutive_failures = 0, !.state = "CLOSED"]

\* a record_failure that compares with > instead of >=
record_failure_late(b, t) ==
    LET b1 == [b EXCEPT !.consecutive_failures = @ + 1,
                        !.last_failure_time = Some(t)]
    IN  IF b1.consecutive_failures > failure_threshold
        THEN [b1 EXCEPT !.state = "OPEN"]
        ELSE b1

\* a record_failure that keeps the time of the first failure
record_failure_first_time(b, t) ==
    LET b1 == [b EXCEPT !.consecutive_failures = @ + 1,
                        !.last_failure_time = IF @ = None THEN Some(t) ELSE @]
    IN  IF b1.consecutive_failures >= failure_threshold
        THEN [b1 EXCEPT !.state = "OPEN"]
        ELSE b1

\* a record_failure that leaves the counter alone once the breaker is OPEN
record_failure_skips_open(b, t) ==
    LET b1 == [b EXCEPT !.consecutive_failures =
                            IF b.state = "OPEN" THEN @ ELSE @ + 1,
                        !.last_failure_time = Some(t)]
    IN  IF b1.consecutive_failures >= failure_threshold
        THEN [b1 EXCEPT !.state = "OPEN"]
        ELSE b1

\* CircuitBreaker.record_failure, called at time t
record_failure(b, t) ==
    LET b1 == [b EXCEPT !.consecutive_failures = @ + 1,
                        !.last_failure_time = Some(t)]
    IN  IF b1.consecutive_failures >= failure_threshold
        THEN [b1 EXCEPT !.state = "OPEN"]
        ELSE b1

\* truth value of `if self.last_failure_time:` (None and 0.0 are falsy)
Truthy(x) == x # None /\ x[1] # 0

\* an is_available that compares the elapsed time with > instead of >=
is_available_strict(b, t) ==
    IF b.state = "CLOSED" THEN [ret |-> TRUE, cb |-> b]
    ELSE IF b.state = "OPEN"
         THEN IF Truthy(b.last_failure_time)
                 /\ t - b.last_failure_time[1] > cooldown_seconds
              THEN [ret |-> TRUE, cb |-> [b EXCEPT !.state = "HALF_OPEN"]]
              ELSE [ret |-> FALSE, cb |-> b]
         ELSE [ret |-> TRUE, cb |-> b]

\* an is_available that leaves OPEN whenever a failure time is set
is_available_no_cooldown(b, t) ==
    IF b.state = "CLOSED" THEN [ret |-> TRUE, cb |-> b]
    ELSE IF b.state = "OPEN"
         THEN IF Truthy(b.last_failure_time)
              THEN [ret |-> TRUE, cb |-> [b EXCEPT !.state = "HALF_OPEN"]]
              ELSE [ret |-> FALSE, cb |-> b]
         ELSE [ret |-> TRUE, cb |-> b]

\* an is_available that lets the call through after the cooldown and forgets to
\* leave OPEN
is_available_stays_open(b, t) ==
    IF b.state = "CLOSED" THEN [ret |-> TRUE, cb |-> b]
    ELSE IF b.state = "OPEN"
         THEN IF Truthy(b.last_failure_time)
                 /\ t - b.last_failure_time[1] >= cooldown_seconds
              THEN [ret |-> TRUE, cb |-> b]
              ELSE [ret |-> FALSE, cb |-> b]
         ELSE [ret |-> TRUE, cb |-> b]

\* CircuitBreaker.is_available at time t: the value returned and the breaker after
is_available(b, t) ==
    IF b.state = "CLOSED" THEN [ret |-> TRUE, cb |-> b]
    ELSE IF b.state = "OPEN"
         THEN IF Truthy(b.last_failure_time)
                 /\ t - b.last_failure_time[1] >= cooldown_seconds
              THEN [ret |-> TRUE, cb |-> [b EXCEPT !.state = "HALF_OPEN"]]
              ELSE [ret |-> FALSE, cb |-> b]
         ELSE [ret |-> TRUE, cb |-> b]

\* Python's max(a, b) on integers
Max(a, b) == IF a >= b THEN a ELSE b

\* `self.last_failure_time or 0`
or_zero(x) == IF Truthy(x) THEN x[1] ELSE 0

\* a get_status that makes the cooldown observation of is_available on its way
get_status_observes(b, t) ==
    LET cb == is_available(b, t).cb IN
    [ret |-> [state |-> cb.state,
              consecutive_failures |-> cb.consecutive_failures,
              cooldown_remaining |->
                  IF cb.state = "OPEN"
                  THEN Max(0, cooldown_seconds - (t - or_zero(cb.last_failure_time)))
                  ELSE 0],
     cb |-> cb]

\* a get_status that forgets the max(0, ...)
get_status_unclamped(b, t) ==
    [ret |-> [state |-> b.state,
              consecutive_failures |-> b.consecutive_failures,
              cooldown_remaining |->
                  IF b.state = "OPEN"
                  THEN cooldown_seconds - (t - or_zero(b.last_failure_time))
                  ELSE 0],
     cb |-> b]

\* CircuitBreaker.get_status at time t: the dict returned and the breaker after
get_status(b, t) ==
    [ret |-> [state |-> b.state,
              consecutive_failures |-> b.consecutive_failures,
              cooldown_remaining |->
                  IF b.state = "OPEN"
                  THEN Max(0, cooldown_seconds - (t - or_zero(b.last_failure_time)))
                  ELSE 0],
     cb |-> b]

(* --------------------------- BrowserManager ----------------------------- *)
\* class attribute _instance = None; __init__ sets the three fields
\* (_browser is None or the handle <<h>> of the h-th browser process launched)
BrowserManager ==
    [_instance |-> FALSE, _playwright |-> FALSE, _browser |-> None,
     _initialized |-> FALSE]

\* BrowserManager.is_ready
is_ready(e) == e._initialized /\ e._browser # None

\* line 66: async_playwright().start() has returned
init_started(e) == [e EXCEPT !._playwright = TRUE]

\* lines 69-74: chromium.launch() has returned the handle h
init_launched(e, h) == [e EXCEPT !._browser = Some(h), !._initialized = TRUE]

\* the handle of the next browser process, given those launched so far
next_handle(bs) == Len(bs) + 1

\* the browser processes after one more was launched (no close() call on it yet)
launched(bs) == Append(bs, 0)

\* the browser processes after close() was called on the handle b (None: no call)
closed_handle(bs, b) == IF b = None THEN bs ELSE [bs EXCEPT ![b[1]] = @ + 1]

\* the handles of the browser processes that were launched and never closed
alive(bs) == {h \in 1..Len(bs) : bs[h] = 0}

\* BrowserManager.initialize run without interruption, with outcome o: the
\* engine after the call (h: the handle launch returns)
initialize(e, o, h) ==
    IF e._initialized THEN e
    ELSE IF o = "ok"
         THEN init_launched(init_started(e), h)
         ELSE IF o = "launch_fails"
              THEN init_started(e)
              ELSE e

\* does that call launch a browser process
initialize_launches(e, o) == ~e._initialized /\ o = "ok"

\* does initialize raise with outcome o
initialize_raises(e, o) == ~e._initialized /\ o # "ok"

InitOutcomes == {"ok", "start_fails", "launch_fails"}

(* ------------------------------- state ---------------------------------- *)
\* DOBStatus as far as the caller's error handling reads it
\* (error is "null" for None; detail is the last_error quoted in the message;
\* fields says where open_violations, stop_work_order, vacate_order and
\* bin_number come from: "default" for a DOBStatus built with the defaults of
\* the class, "extracted" for the status _extract_data_from_page filled)
DOBStatus(error, detail, fields) ==
    [returned |-> TRUE, error |-> error, detail |-> detail, fields |-> fields]
NoResult ==
    [returned |-> FALSE, error |-> "null", detail |-> "None", fields |-> "default"]

\* per call: record_success and record_failure calls made, and the state the
\* breaker was in when the call reported its success; attempts that ended in a
\* timeout, an HTTP error or a transport failure; the identities handed to
\* get_page; whether one was handed out again while another one of the pool had
\* not been used yet; what the markup retrieved by the current attempt was
\* ("none": nothing retrieved so far); the identity of each attempt, in order
NoHist == [successes |-> 0, failures |-> 0, reported_in |-> "none",
           failed_attempts |-> 0, identities |-> {}, early_reuse |-> FALSE,
           markup |-> "none", agents |-> <<>>]

\* breaker-wide: record_failure calls since the last record_success; the time the
\* state last became OPEN; the time of the last record_failure; the time of the
\* last record_failure made in HALF_OPEN (None again after a record_success); the
\* request is_available let through on or after the move to HALF_OPEN, while no
\* outcome has been reported since and it has not returned (0: none); whether
\* is_available has returned false since the last report
NoObs == [fail_run |-> 0, opened_at |-> None, last_failure_at |-> None,
          half_open_failure_at |-> None, trial |-> 0, refused |-> FALSE]

\* no call made so far
NoCall == [method |-> "none", args |-> <<>>, value |-> <<>>]

\* the locals of get_page as a call starts (lines 135-136: context = None, page =
\* None, written 0; they are 0 again once close() was called on them), with how
\* the body of the with statement ended, what is in flight through the finally
\* clause (an exception, or a normal completion), and how many of the close()
\* calls raised
NoSession == [context |-> 0, page |-> 0, body |-> "none", leaves |-> "none",
              close_failures |-> 0]

\* main.py line 45 and lifespan before its first statement: _browser_manager is
\* None (FALSE; TRUE once it holds the instance)
Lifespan == [phase |-> "startup", _browser_manager |-> FALSE]

\* the identifiers _get_rate_limit returns: one API key and one client address
Identifiers == {"key:sk_live_1", "ip:10.0.0.1"}

\* RateLimitMiddleware.__init__ (lines 34-43): _requests is empty; no dispatch
\* call is in progress (identifier: the local of the call of each task, "" when
\* there is none); admitted: the times at which requests were recorded in the
\* _window_size seconds up to now, per identifier
RateLimitMiddleware ==
    [_requests |-> [i \in Identifiers |-> <<>>],
     identifier |-> [r \in Requests |-> ""],
     admitted |-> [i \in Identifiers |-> <<>>]]

\* APIKeyManager with the APIKeyData of one key as create_key makes it (lines
\* 180-185 and 45-67: calls_this_month = 0, current_month = the month of its
\* creation); the calendar month; and per month of account the responses below
\* 400 that were sent and the calls record_usage counted
APIKeyManager ==
    [calls_this_month |-> 0, current_month |-> 1, month |-> 1,
     served |-> [m \in 1..MaxMonth |-> 0],
     counted |-> [m \in 1..MaxMonth |-> 0]]

InitCalls(retries, pools, calls) ==
    /\ probe \in calls
    /\ app = Lifespan
    /\ limiter = RateLimitMiddleware
    /\ keys = APIKeyManager
    /\ session = [r \in Requests |-> NoSession]
    /\ made = [contexts |-> 0, pages |-> 0]
    /\ now = 1
    /\ dob_retry_count \in retries
    /\ USER_AGENTS \in pools
    /\ breaker = CircuitBreaker
    /\ engine = BrowserManager
    /\ pc = [r \in Requests |-> "idle"]
    /\ attempt = [r \in Requests |-> 0]
    /\ used_agents = [r \in Requests |-> {}]
    /\ last_error = [r \in Requests |-> "None"]
    /\ exit = [r \in Requests |-> "none"]
    /\ result = [r \in Requests |-> NoResult]
    /\ open_ctx = [r \in Requests |-> 0]
    /\ open_page = [r \in Requests |-> 0]
    /\ hist = [r \in Requests |-> NoHist]
    /\ obs = NoObs
    /\ lock = 0
    /\ browsers = <<>>
    /\ op = [r \in Requests |-> "none"]
    /\ handle = [r \in Requests |-> None]
    /\ closed = FALSE
    /\ events = [r \in Requests |-> 0]

InitWith(retries, pools) == InitCalls(retries, pools, {NoCall})

\* observation of a record_success call
ObsSuccess(o) ==
    [o EXCEPT !.fail_run = 0, !.half_open_failure_at = None, !.trial = 0,
              !.refused = FALSE]

\* observation of a record_failure call that takes the breaker from b to b2 at t
ObsFailure(o, b, b2, t) ==
    [o EXCEPT !.fail_run = @ + 1,
              !.trial = 0,
              !.refused = FALSE,
              !.last_failure_at = Some(t),
              !.opened_at = IF b.state # "OPEN" /\ b2.state = "OPEN"
                            THEN Some(t) ELSE @,
              !.half_open_failure_at = IF b.state = "HALF_OPEN" THEN Some(t) ELSE @]

(* ------------------------- DOBScraper.get_dob_status -------------------- *)
\* lines 277-287: the breaker check, up to the first await (get_browser_manager)
CheckBreaker(r) ==
    /\ pc[r] = "idle"
    /\ LET a == is_available(breaker, now) IN
        /\ breaker' = a.cb
        /\ IF a.ret
           THEN /\ pc' = [pc EXCEPT ![r] = "getmgr"]
                /\ obs' = [obs EXCEPT !.trial =
                        IF a.cb.state = "HALF_OPEN" /\ @ = 0 THEN r ELSE @]
                /\ UNCHANGED result
           ELSE /\ pc' = [pc EXCEPT ![r] = "done"]
                /\ result' = [result EXCEPT ![r] = DOBStatus("circuit_open", "None", "default")]
                /\ obs' = [obs EXCEPT !.refused = TRUE]
    /\ UNCHANGED <<now, config, extra, engine, attempt, used_agents, last_error,
                   exit, open_ctx, open_page, hist, browsers, evars>>

\* line 289 and BrowserManager.get_instance (under cls._lock): an exception of
\* initialize is not caught by get_dob_status; lines 290-292 set the locals
GetBrowserManager(r) ==
    /\ pc[r] = "getmgr"
    /\ lock = 0
    /\ \E o \in InitOutcomes :
        LET e1 == [engine EXCEPT !._instance = TRUE] IN
        /\ engine' = initialize(e1, o, next_handle(browsers))
        /\ browsers' = IF initialize_launches(e1, o) THEN launched(browsers)
                        ELSE browsers
        /\ pc' = [pc EXCEPT ![r] = IF initialize_raises(e1, o) THEN "raised"
                                   ELSE "attempt"]
    /\ attempt' = [attempt EXCEPT ![r] = 0]
    /\ last_error' = [last_error EXCEPT ![r] = "None"]
    /\ used_agents' = [used_agents EXCEPT ![r] = {}]
    /\ UNCHANGED <<now, config, extra, breaker, exit, result, open_ctx,
                   open_page, hist, obs, evars>>

\* an identity choice that never looks at used_agents
available_agents_any(used) == USER_AGENTS

\* lines 298-300: the identities random.choice draws from
available_agents(used) ==
    LET fresh == {ua \in USER_AGENTS : ua \notin used}
    IN  IF fresh = {} THEN USER_AGENTS ELSE fresh

\* an except clause that reports every failed attempt to the breaker
AfterAttempt_every_attempt(r, x, h) ==
    LET h1 == [h EXCEPT !.failed_attempts =
                    IF x \in {"timeout", "exception"} THEN @ + 1 ELSE @] IN
    /\ last_error' = [last_error EXCEPT ![r] =
            IF x = "timeout" THEN "Timeout"
            ELSE IF x = "exception" THEN "Exception" ELSE @]
    /\ IF attempt[r] < dob_retry_count
       THEN \* asyncio.sleep(2), then the next iteration
            /\ attempt' = [attempt EXCEPT ![r] = @ + 1]
            /\ pc' = [pc EXCEPT ![r] = "attempt"]
            /\ breaker' = record_failure(breaker, now)
            /\ obs' = ObsFailure(obs, breaker, record_failure(breaker, now), now)
            /\ hist' = [hist EXCEPT ![r] =
                    [h1 EXCEPT !.failures = @ + 1]]
            /\ UNCHANGED result
       ELSE \* the loop is over: lines 357-363
            /\ breaker' = record_failure(breaker, now)
            /\ obs' = ObsFailure(obs, breaker, record_failure(breaker, now), now)
            /\ hist' = [hist EXCEPT ![r] =
                    [h1 EXCEPT !.failures = @ + 1]]
            /\ result' = [result EXCEPT ![r] =
                    DOBStatus("scrape_failed", last_error'[r], "default")]
            /\ pc' = [pc EXCEPT ![r] = "done"]
            /\ UNCHANGED attempt

\* a loop that runs once more: range(dob_retry_count + 2)
AfterAttempt_one_more(r, x, h) ==
    LET h1 == [h EXCEPT !.failed_attempts =
                    IF x \in {"timeout", "exception"} THEN @ + 1 ELSE @] IN
    /\ last_error' = [last_error EXCEPT ![r] =
            IF x = "timeout" THEN "Timeout"
            ELSE IF x = "exception" THEN "Exception" ELSE @]
    /\ IF attempt[r] <= dob_retry_count
       THEN /\ attempt' = [attempt EXCEPT ![r] = @ + 1]
            /\ pc' = [pc EXCEPT ![r] = "attempt"]
            /\ hist' = [hist EXCEPT ![r] = h1]
            /\ UNCHANGED <<breaker, result, obs>>
       ELSE /\ breaker' = record_failure(breaker, now)
            /\ obs' = ObsFailure(obs, breaker, record_failure(breaker, now), now)
            /\ hist' = [hist EXCEPT ![r] =
                    [h1 EXCEPT !.failures = @ + 1]]
            /\ result' = [result EXCEPT ![r] =
                    DOBStatus("scrape_failed", last_error'[r], "default")]
            /\ pc' = [pc EXCEPT ![r] = "done"]
            /\ UNCHANGED attempt

\* lines 345-363: the except clauses, the end of the loop body and what follows
\* the loop, for an attempt of request r that ended as x ("timeout", "exception",
\* or "fallthrough": the body ended without return and without exception); h is
\* the observation of the call so far
AfterAttempt(r, x, h) ==
    LET h1 == [h EXCEPT !.failed_attempts =
                    IF x \in {"timeout", "exception"} THEN @ + 1 ELSE @] IN
    /\ last_error' = [last_error EXCEPT ![r] =
            IF x = "timeout" THEN "Timeout"
            ELSE IF x = "exception" THEN "Exception" ELSE @]
    /\ IF attempt[r] < dob_retry_count
       THEN \* asyncio.sleep(2), then the next iteration
            /\ attempt' = [attempt EXCEPT ![r] = @ + 1]
            /\ pc' = [pc EXCEPT ![r] = "attempt"]
            /\ hist' = [hist EXCEPT ![r] = h1]
            /\ UNCHANGED <<breaker, result, obs>>
       ELSE \* the loop is over: lines 357-363
            /\ breaker' = record_failure(breaker, now)
            /\ obs' = ObsFailure(obs, breaker, record_failure(breaker, now), now)
            /\ hist' = [hist EXCEPT ![r] =
                    [h1 EXCEPT !.failures = @ + 1]]
            /\ result' = [result EXCEPT ![r] =
                    DOBStatus("scrape_failed", last_error'[r], "default")]
            /\ pc' = [pc EXCEPT ![r] = "done"]
            /\ UNCHANGED attempt

\* outcomes of BrowserManager.get_page before its yield: new_context raises;
\* add_init_script or new_page raises (the context exists); the page is yielded
AcquireOutcomes == {"ok", "no_context", "no_page"}

\* lines 296-305 and BrowserManager.get_page up to its yield (lines 128-187)
BeginAttempt(r) ==
    /\ pc[r] = "attempt"
    /\ \E ua \in available_agents(used_agents[r]),
          o \in InitOutcomes, s \in AcquireOutcomes :
        LET h == [hist[r] EXCEPT
                    !.markup = "none",
                    !.identities = @ \cup {ua},
                    !.agents = Append(@, ua),
                    !.early_reuse = @ \/ (ua \in hist[r].identities
                                          /\ hist[r].identities # USER_AGENTS)]
            init_raises == ~is_ready(engine) /\ initialize_raises(engine, o)
        IN
        /\ used_agents' = [used_agents EXCEPT ![r] = @ \cup {ua}]
        /\ engine' = IF is_ready(engine) THEN engine
                      ELSE initialize(engine, o, next_handle(browsers))
        /\ browsers' = IF ~is_ready(engine) /\ initialize_launches(engine, o)
                        THEN launched(browsers) ELSE browsers
        /\ IF init_raises \/ s = "no_context"
           THEN \* nothing was created: the finally clause closes nothing
                /\ AfterAttempt(r, "exception", h)
                /\ UNCHANGED <<exit, open_ctx, open_page>>
           ELSE /\ open_ctx' = [open_ctx EXCEPT ![r] = @ + 1]
                /\ hist' = [hist EXCEPT ![r] = h]
                /\ IF s = "ok"
                   THEN /\ open_page' = [open_page EXCEPT ![r] = @ + 1]
                        /\ pc' = [pc EXCEPT ![r] = "goto"]
                        /\ UNCHANGED exit
                   ELSE /\ pc' = [pc EXCEPT ![r] = "teardown"]
                        /\ exit' = [exit EXCEPT ![r] = "exception"]
                        /\ UNCHANGED open_page
                /\ UNCHANGED <<breaker, attempt, last_error, result, obs>>
    /\ UNCHANGED <<now, config, extra, evars>>

\* outcomes of page.goto (lines 307-315): a response below 400, PlaywrightTimeout,
\* a response of 400 or more (raise Exception), any other exception
GotoOutcomes == {"ok", "timeout", "http_error", "transport"}

\* lines 307-315
Goto(r) ==
    /\ pc[r] = "goto"
    /\ \E g \in GotoOutcomes :
        /\ pc' = [pc EXCEPT ![r] = IF g = "ok" THEN "content" ELSE "teardown"]
        /\ exit' = [exit EXCEPT ![r] =
                IF g = "ok" THEN @ ELSE IF g = "timeout" THEN "timeout" ELSE "exception"]
    /\ UNCHANGED <<now, config, extra, breaker, engine, attempt, used_agents,
                   last_error, result, open_ctx, open_page, hist, obs,
                   browsers, evars>>

\* what lines 318-335 find: the "no records found" page; markup the extraction
\* reads without error; markup for which _extract_data_from_page sets
\* status.error; or an exception of wait_for_load_state / content
ContentOutcomes == {"no_records", "clean", "parse_error", "exception"}

\* a body that logs the success and forgets to return the status
ContentExit_no_return(c) ==
    IF c = "no_records" THEN "return"
    ELSE IF c = "exception" THEN "exception" ELSE "fallthrough"

\* a body that logs the missing records and forgets to return
ContentExit_no_records_goes_on(c) ==
    IF c = "clean" THEN "return"
    ELSE IF c = "exception" THEN "exception" ELSE "fallthrough"

\* how the with body ends for what was found: return at line 329 or 343, an
\* exception, or the end of the body when status.error is set (line 337)
ContentExit(c) ==
    IF c \in {"no_records", "clean"} THEN "return"
    ELSE IF c = "parse_error" THEN "fallthrough" ELSE "exception"

\* lines 318-343: from the wait for the content to the end of the with body
Content(r) ==
    /\ pc[r] = "content"
    /\ \E c \in ContentOutcomes :
        /\ exit' = [exit EXCEPT ![r] = ContentExit(c)]
        /\ result' = [result EXCEPT ![r] =
                IF c = "no_records" THEN DOBStatus("no_records", "None", "default")
                ELSE IF c = "clean" THEN DOBStatus("null", "None", "extracted")
                ELSE @]
        /\ IF c = "clean"
           THEN /\ breaker' = record_success(breaker)
                /\ obs' = ObsSuccess(obs)
                /\ hist' = [hist EXCEPT ![r].successes = @ + 1,
                                        ![r].reported_in = breaker.state,
                                        ![r].markup = c]
           ELSE /\ hist' = [hist EXCEPT ![r].markup =
                                IF c = "exception" THEN @ ELSE c]
                /\ UNCHANGED <<breaker, obs>>
    /\ pc' = [pc EXCEPT ![r] = "teardown"]
    /\ UNCHANGED <<now, config, extra, engine, attempt, used_agents, last_error,
                   open_ctx, open_page, browsers, evars>>

\* a cleanup that closes the context and leaves the page
close_page_forgotten(n) == n

\* lines 191-195: `if page:` page.close(), of n open pages
close_page(n) == IF n > 0 THEN n - 1 ELSE n

\* a cleanup that closes the page and leaves the context
close_context_forgotten(n) == n

\* lines 197-201: `if context:` context.close(), of n open contexts
close_context(n) == IF n > 0 THEN n - 1 ELSE n

\* the finally clause of get_page (lines 189-201): page.close() if a page was
\* made, then context.close(); an exception of either is logged and dropped.
\* The with statement is then left the way its body ended: by return (lines
\* 329, 343), by an exception (lines 345-351), or at its end (line 337 false)
Teardown(r) ==
    /\ pc[r] = "teardown"
    /\ open_page' = [open_page EXCEPT ![r] = close_page(@)]
    /\ open_ctx' = [open_ctx EXCEPT ![r] = close_context(@)]
    /\ exit' = [exit EXCEPT ![r] = "none"]
    /\ IF exit[r] = "return"
       THEN /\ pc' = [pc EXCEPT ![r] = "done"]
            /\ UNCHANGED <<breaker, attempt, last_error, result, hist, obs>>
       ELSE AfterAttempt(r, exit[r], hist[r])
    /\ UNCHANGED <<now, config, extra, engine, used_agents, browsers, evars>>

\* the caller has the value (or the exception); the task is free for another call
Return(r) ==
    /\ pc[r] \in {"done", "raised"}
    /\ pc' = [pc EXCEPT ![r] = "idle"]
    /\ attempt' = [attempt EXCEPT ![r] = 0]
    /\ used_agents' = [used_agents EXCEPT ![r] = {}]
    /\ last_error' = [last_error EXCEPT ![r] = "None"]
    /\ result' = [result EXCEPT ![r] = NoResult]
    /\ hist' = [hist EXCEPT ![r] = NoHist]
    /\ obs' = [obs EXCEPT !.trial = IF @ = r THEN 0 ELSE @]
    /\ UNCHANGED <<now, config, extra, breaker, engine, exit, open_ctx, open_page,
                   browsers, evars>>

(* ------------------ BrowserManager, one await at a time ----------------- *)
\* what the engine calls leave alone
scraper_vars == <<now, config, extra, breaker, attempt, used_agents, last_error,
                  result, hist, obs, events>>

\* a guard that is never true: initialize starts over on an initialized engine
initialize_never_skips(e) == FALSE

\* line 60: `if self._initialized: return`
initialize_skips(e) == e._initialized

\* an exception of initialize leaves the method that called it: get_instance
\* releases cls._lock on the way (the lock after it, held by r or by nobody)
release(l, r) == IF l = r THEN 0 ELSE l

\* lines 48-56: cls._lock is free and taken; the instance is made if there is
\* none; initialize is called unless _initialized, up to its first await
GetInstanceEnter(r) ==
    /\ pc[r] = "idle" /\ lock = 0
    /\ op' = [op EXCEPT ![r] = "get_instance"]
    /\ engine' = [engine EXCEPT !._instance = TRUE]
    /\ IF engine._initialized
       THEN pc' = [pc EXCEPT ![r] = "e_noop"] /\ UNCHANGED lock
       ELSE pc' = [pc EXCEPT ![r] = "e_start"] /\ lock' = r
    /\ UNCHANGED <<scraper_vars, exit, open_ctx, open_page, browsers,
                   handle, closed>>

\* lines 58-66: initialize() called on the instance, up to its first await
InitializeEnter(r) ==
    /\ pc[r] = "idle" /\ engine._instance
    /\ op' = [op EXCEPT ![r] = "initialize"]
    /\ pc' = [pc EXCEPT ![r] = IF initialize_skips(engine) THEN "e_noop"
                               ELSE "e_start"]
    /\ UNCHANGED <<scraper_vars, engine, exit, open_ctx, open_page, browsers,
                   lock, handle, closed>>

\* lines 128-139: get_page() called on the instance, up to its first await:
\* that of initialize when the engine is not ready, else that of new_context;
\* when initialize returns at once and _browser is None, line 139 raises
GetPageEnter(r) ==
    /\ pc[r] = "idle" /\ engine._instance
    /\ op' = [op EXCEPT ![r] = "get_page"]
    /\ IF is_ready(engine)
       THEN /\ pc' = [pc EXCEPT ![r] = "e_ctx"]
            /\ handle' = [handle EXCEPT ![r] = engine._browser]
       ELSE /\ pc' = [pc EXCEPT ![r] =
                    IF ~initialize_skips(engine) THEN "e_start"
                    ELSE IF engine._browser = None THEN "e_raised" ELSE "e_ctx"]
            /\ handle' = [handle EXCEPT ![r] =
                    IF initialize_skips(engine) THEN engine._browser ELSE @]
    /\ UNCHANGED <<scraper_vars, engine, exit, open_ctx, open_page, browsers,
                   lock, closed>>

\* outcomes of an awaited call of Playwright
AwaitOutcomes == {"ok", "raises"}

\* line 66: async_playwright().start() returns or raises (lines 77-79 re-raise)
InitStart(r) ==
    /\ pc[r] = "e_start"
    /\ \E o \in AwaitOutcomes :
        IF o = "ok"
        THEN /\ engine' = init_started(engine)
             /\ pc' = [pc EXCEPT ![r] = "e_launch"]
             /\ UNCHANGED lock
        ELSE /\ pc' = [pc EXCEPT ![r] = "e_raised"]
             /\ lock' = release(lock, r)
             /\ UNCHANGED engine
    /\ UNCHANGED <<scraper_vars, exit, open_ctx, open_page, browsers, op,
                   handle, closed>>

\* lines 69-79: chromium.launch() returns a new browser or raises; get_instance
\* then returns the instance, get_page goes on to new_context (line 139)
InitLaunch(r) ==
    /\ pc[r] = "e_launch"
    /\ \E o \in AwaitOutcomes :
        IF o = "ok"
        THEN /\ Len(browsers) < MaxLaunch
             /\ browsers' = launched(browsers)
             /\ engine' = init_launched(engine, next_handle(browsers))
             /\ pc' = [pc EXCEPT ![r] = IF op[r] = "get_page" THEN "e_ctx"
                                        ELSE "e_done"]
             /\ handle' = [handle EXCEPT ![r] =
                     IF op[r] = "get_page" THEN engine'._browser ELSE @]
        ELSE /\ pc' = [pc EXCEPT ![r] = "e_raised"]
             /\ UNCHANGED <<engine, browsers, handle>>
    /\ lock' = release(lock, r)
    /\ UNCHANGED <<scraper_vars, exit, open_ctx, open_page, op, closed>>

\* lines 139-187: new_context on the browser it was called on (a closed browser
\* makes none), add_init_script and new_page, up to the yield
NewContext(r) ==
    /\ pc[r] = "e_ctx"
    /\ \E s \in AcquireOutcomes :
        /\ s # "no_context" => handle[r][1] \in alive(browsers)
        /\ IF s = "no_context"
           THEN /\ pc' = [pc EXCEPT ![r] = "e_raised"]
                /\ UNCHANGED <<exit, open_ctx, open_page>>
           ELSE /\ open_ctx' = [open_ctx EXCEPT ![r] = @ + 1]
                /\ IF s = "ok"
                   THEN /\ open_page' = [open_page EXCEPT ![r] = @ + 1]
                        /\ pc' = [pc EXCEPT ![r] = "e_session"]
                        /\ UNCHANGED exit
                   ELSE /\ pc' = [pc EXCEPT ![r] = "e_release"]
                        /\ exit' = [exit EXCEPT ![r] = "exception"]
                        /\ UNCHANGED open_page
    /\ handle' = [handle EXCEPT ![r] = None]
    /\ UNCHANGED <<scraper_vars, engine, browsers, lock, op, closed>>

\* lines 189-201: the with body is over (or new_page raised): the finally clause
Release(r) ==
    /\ pc[r] \in {"e_session", "e_release"}
    /\ open_page' = [open_page EXCEPT ![r] = close_page(@)]
    /\ open_ctx' = [open_ctx EXCEPT ![r] = close_context(@)]
    /\ exit' = [exit EXCEPT ![r] = "none"]
    /\ pc' = [pc EXCEPT ![r] = IF exit[r] = "exception" THEN "e_raised"
                               ELSE "e_done"]
    /\ UNCHANGED <<scraper_vars, engine, browsers, evars>>

\* a close that leaves the handle in place
close_browser_done_keeps(e) == e

\* line 90: self._browser = None
close_browser_done(e) == [e EXCEPT !._browser = None]

\* lines 97-99: self._playwright = None; self._initialized = False
close_finished(e) == [e EXCEPT !._playwright = FALSE, !._initialized = FALSE]

\* lines 81-100: close() called on the instance, up to its first await: that of
\* self._browser.close(), else that of self._playwright.stop(), else to its end
CloseEnter(r) ==
    /\ pc[r] = "idle" /\ engine._instance
    /\ op' = [op EXCEPT ![r] = "close"]
    /\ browsers' = closed_handle(browsers, engine._browser)
    /\ IF engine._browser # None
       THEN /\ pc' = [pc EXCEPT ![r] = "e_close_browser"]
            /\ UNCHANGED <<engine, closed>>
       ELSE IF engine._playwright
            THEN /\ pc' = [pc EXCEPT ![r] = "e_stop"]
                 /\ UNCHANGED <<engine, closed>>
            ELSE /\ pc' = [pc EXCEPT ![r] = "e_noop"]
                 /\ engine' = close_finished(engine)
                 /\ closed' = TRUE
    /\ UNCHANGED <<scraper_vars, exit, open_ctx, open_page, lock, handle>>

\* lines 87-99: self._browser.close() has returned or raised (logged); the
\* handle is dropped; then self._playwright.stop() is awaited if there is one
CloseBrowserDone(r) ==
    /\ pc[r] = "e_close_browser"
    /\ IF engine._playwright
       THEN /\ engine' = close_browser_done(engine)
            /\ pc' = [pc EXCEPT ![r] = "e_stop"]
            /\ UNCHANGED closed
       ELSE /\ engine' = close_finished(close_browser_done(engine))
            /\ pc' = [pc EXCEPT ![r] = "e_done"]
            /\ closed' = TRUE
    /\ UNCHANGED <<scraper_vars, exit, open_ctx, open_page, browsers, lock,
                   op, handle>>

\* lines 94-100: self._playwright.stop() has returned or raised (logged)
ClosePlaywrightDone(r) ==
    /\ pc[r] = "e_stop"
    /\ engine' = close_finished(engine)
    /\ pc' = [pc EXCEPT ![r] = "e_done"]
    /\ closed' = TRUE
    /\ UNCHANGED <<scraper_vars, exit, open_ctx, open_page, browsers, lock,
                   op, handle>>

\* the caller has the value or the exception of the engine call
EngineReturn(r) ==
    /\ pc[r] \in {"e_noop", "e_done", "e_raised"}
    /\ pc' = [pc EXCEPT ![r] = "idle"]
    /\ op' = [op EXCEPT ![r] = "none"]
    /\ UNCHANGED <<scraper_vars, engine, exit, open_ctx, open_page, browsers,
                   lock, handle, closed>>

\* one step of an engine call of task r
EngineStep(r) ==
    \/ GetInstanceEnter(r)
    \/ InitializeEnter(r)
    \/ GetPageEnter(r)
    \/ InitStart(r)
    \/ InitLaunch(r)
    \/ NewContext(r)
    \/ Release(r)
    \/ CloseEnter(r)
    \/ CloseBrowserDone(r)
    \/ ClosePlaywrightDone(r)
    \/ EngineReturn(r)

(* --------------------- DOBScraper.get_violation_history ----------------- *)
\* what get_violation_history leaves alone: the breaker, the clock, and the
\* locals and observations of get_dob_status
status_vars == <<now, config, extra, breaker, attempt, used_agents, last_error,
                 result, hist, obs>>

\* lines 382-398: the URL, `await get_browser_manager()` (get_instance under
\* cls._lock; an exception of initialize is not caught), events = []
HistGetBrowserManager(r) ==
    /\ pc[r] = "idle"
    /\ lock = 0
    /\ \E o \in InitOutcomes :
        LET e1 == [engine EXCEPT !._instance = TRUE] IN
        /\ engine' = initialize(e1, o, next_handle(browsers))
        /\ browsers' = IF initialize_launches(e1, o) THEN launched(browsers)
                        ELSE browsers
        /\ pc' = [pc EXCEPT ![r] = IF initialize_raises(e1, o) THEN "h_raised"
                                   ELSE "h_page"]
    /\ events' = [events EXCEPT ![r] = 0]
    /\ UNCHANGED <<status_vars, exit, open_ctx, open_page, lock, op, handle, closed>>

\* line 401 and BrowserManager.get_page up to its yield (lines 128-187); an
\* exception before the context exists is caught at line 473
HistAcquire(r) ==
    /\ pc[r] = "h_page"
    /\ \E o \in InitOutcomes, s \in AcquireOutcomes :
        LET init_raises == ~is_ready(engine) /\ initialize_raises(engine, o) IN
        /\ engine' = IF is_ready(engine) THEN engine
                      ELSE initialize(engine, o, next_handle(browsers))
        /\ browsers' = IF ~is_ready(engine) /\ initialize_launches(engine, o)
                        THEN launched(browsers) ELSE browsers
        /\ IF init_raises \/ s = "no_context"
           THEN /\ pc' = [pc EXCEPT ![r] = "h_done"]
                /\ UNCHANGED <<exit, open_ctx, open_page>>
           ELSE /\ open_ctx' = [open_ctx EXCEPT ![r] = @ + 1]
                /\ IF s = "ok"
                   THEN /\ open_page' = [open_page EXCEPT ![r] = @ + 1]
                        /\ pc' = [pc EXCEPT ![r] = "h_goto"]
                        /\ UNCHANGED exit
                   ELSE /\ pc' = [pc EXCEPT ![r] = "h_teardown"]
                        /\ exit' = [exit EXCEPT ![r] = "exception"]
                        /\ UNCHANGED open_page
    /\ UNCHANGED <<status_vars, evars>>

\* lines 402-410: page.goto; a status of 400 or more returns the empty list
HistGoto(r) ==
    /\ pc[r] = "h_goto"
    /\ \E g \in GotoOutcomes :
        /\ pc' = [pc EXCEPT ![r] = IF g = "ok" THEN "h_content" ELSE "h_teardown"]
        /\ exit' = [exit EXCEPT ![r] =
                IF g = "ok" THEN @
                ELSE IF g = "timeout" THEN "timeout"
                ELSE IF g = "http_error" THEN "return" ELSE "exception"]
    /\ UNCHANGED <<status_vars, engine, open_ctx, open_page, browsers, evars>>

\* how lines 412-469 end: wait_for_load_state or content raises; the tables
\* are read to their end; or an exception interrupts the reading
HistContentOutcomes == {"exception", "parsed", "parse_exception"}

\* lines 412-469: n events are appended before the body ends
HistContent(r) ==
    /\ pc[r] = "h_content"
    /\ \E c \in HistContentOutcomes, n \in 0..MaxEvents :
        /\ c = "exception" => n = 0
        /\ events' = [events EXCEPT ![r] = n]
        /\ exit' = [exit EXCEPT ![r] =
                IF c = "parsed" THEN "fallthrough" ELSE "exception"]
    /\ pc' = [pc EXCEPT ![r] = "h_teardown"]
    /\ UNCHANGED <<status_vars, engine, open_ctx, open_page, browsers,
                   lock, op, handle, closed>>

\* a get_violation_history that reports its timeouts and exceptions to the
\* breaker
HistTeardown_reports(r) ==
    /\ pc[r] = "h_teardown"
    /\ open_page' = [open_page EXCEPT ![r] = close_page(@)]
    /\ open_ctx' = [open_ctx EXCEPT ![r] = close_context(@)]
    /\ exit' = [exit EXCEPT ![r] = "none"]
    /\ pc' = [pc EXCEPT ![r] = "h_done"]
    /\ breaker' = IF exit[r] \in {"timeout", "exception"}
                  THEN record_failure(breaker, now) ELSE breaker
    /\ UNCHANGED <<now, config, extra, attempt, used_agents, last_error,
                   result, hist, obs, engine, browsers, evars>>

\* the finally clause of get_page (lines 189-201), then lines 471-476: the
\* exceptions are logged and events is returned on every path
HistTeardown(r) ==
    /\ pc[r] = "h_teardown"
    /\ open_page' = [open_page EXCEPT ![r] = close_page(@)]
    /\ open_ctx' = [open_ctx EXCEPT ![r] = close_context(@)]
    /\ exit' = [exit EXCEPT ![r] = "none"]
    /\ pc' = [pc EXCEPT ![r] = "h_done"]
    /\ UNCHANGED <<status_vars, engine, browsers, evars>>

\* the caller has the list (or the exception)
HistReturn(r) ==
    /\ pc[r] \in {"h_done", "h_raised"}
    /\ pc' = [pc EXCEPT ![r] = "idle"]
    /\ events' = [events EXCEPT ![r] = 0]
    /\ UNCHANGED <<status_vars, engine, exit, open_ctx, open_page, browsers,
                   lock, op, handle, closed>>

\* one step of the get_violation_history call of request r
HistStep(r) ==
    \/ HistGetBrowserManager(r)
    \/ HistAcquire(r)
    \/ HistGoto(r)
    \/ HistContent(r)
    \/ HistTeardown(r)
    \/ HistReturn(r)

\* time passes
Tick ==
    /\ now < MaxTime
    /\ now' = now + 1
    /\ UNCHANGED <<config, extra, breaker, engine, pc, attempt, used_agents,
                   last_error, exit, result, open_ctx, open_page, hist, obs,
                   browsers, evars>>

\* one step of the call of request r
Step(r) ==
    \/ CheckBreaker(r)
    \/ GetBrowserManager(r)
    \/ BeginAttempt(r)
    \/ Goto(r)
    \/ Content(r)
    \/ Teardown(r)
    \/ Return(r)

\* the application: NumRequests tasks calling get_dob_status over and over, each
\* call making one attempt with the one identity of the pool
Init == InitWith({0}, {{1}})
Next == (\E r \in Requests : Step(r)) \/ Tick
Spec == Init /\ [][Next]_vars

\* the same, where time keeps advancing (up to MaxTime) and every task keeps
\* making calls: it is resumed whenever the call it awaits has returned or raised
SpecFair == Spec /\ WF_vars(Tick) /\ \A r \in Requests : WF_vars(Step(r))

\* one task calling get_dob_status over and over, for every retry setting
InitSeq == InitWith(0..MaxRetry, {1..NumAgents})
NextSeq == Step(1) \/ Tick
SpecSeq == InitSeq /\ [][NextSeq]_vars

\* the same, where the event loop resumes the task whenever the call it awaits
\* has returned or raised, and every awaited call does one or the other
SpecSeqFair == SpecSeq /\ WF_vars(Step(1))

\* one task calling get_dob_status over and over, with a retry setting that
\* gives every call twice as many attempts as the pool has identities
InitRotation == InitWith({2 * NumAgents - 1}, {1..NumAgents})
NextRotation == Step(1) \/ Tick
SpecRotation == InitRotation /\ [][NextRotation]_vars

\* NumRequests tasks calling get_violation_history over and over
InitHist == InitWith({0}, {{1}})
NextHist == \E r \in Requests : HistStep(r)
SpecHist == InitHist /\ [][NextHist]_vars

\* task 1 calling get_dob_status and task 2 calling get_violation_history, each
\* over and over, as the routes of routes/v1.py do for two clients
InitBoth == InitWith({0}, {{1}})
NextBoth == Step(1) \/ HistStep(2) \/ Tick
SpecBoth == InitBoth /\ [][NextBoth]_vars

\* NumRequests tasks calling get_instance, initialize, get_page and close on
\* the engine in any order and at any time
InitEngine == InitWith({0}, {{1}})
NextEngine == \E r \in Requests : EngineStep(r)
SpecEngine == InitEngine /\ [][NextEngine]_vars

\* one task making these calls one after the other
NextEngineSeq == EngineStep(1)
SpecEngineSeq == InitEngine /\ [][NextEngineSeq]_vars

(* ------------------------ CircuitBreaker.get_status --------------------- *)
\* get_circuit_breaker().get_status(), called by a health report at any moment
\* between two steps of the requests
GetStatus ==
    /\ LET s == get_status(breaker, now) IN
        /\ breaker' = s.cb
        /\ probe' = [method |-> "get_status", args |-> <<now>>, value |-> s.ret]
    /\ UNCHANGED <<now, config, session, made, web, engine, pc, attempt,
                   used_agents, last_error, exit, result, open_ctx, open_page,
                   hist, obs, browsers, evars>>

\* one task calling get_dob_status over and over, each call making one attempt,
\* and the breaker's status read at any moment
InitStatus == InitWith({0}, {{1}})
NextStatus == Step(1) \/ Tick \/ GetStatus
SpecStatus == InitStatus /\ [][NextStatus]_vars

(* ------------------- BrowserManager.get_page, one session --------------- *)
\* what a get_page call leaves alone
session_frame == <<now, config, probe, web, breaker, attempt, used_agents,
                   last_error, exit, result, hist, obs, evars>>

\* a get_page that hands out the context the last call made, if there is one
acquire_context_shared(m) ==
    IF m.contexts > 0 THEN [id |-> m.contexts, made |-> m]
    ELSE [id |-> 1, made |-> [m EXCEPT !.contexts = 1]]

\* line 139: context = await self._browser.new_context(...): the browser makes
\* a context that did not exist before (the next one) and it is kept in a local
acquire_context(m) ==
    [id |-> m.contexts + 1, made |-> [m EXCEPT !.contexts = @ + 1]]

\* line 185: page = await context.new_page(): likewise for the page
acquire_page(m) ==
    [id |-> m.pages + 1, made |-> [m EXCEPT !.pages = @ + 1]]

\* a close() outside any try statement: its exception replaces the one in flight
close_unguarded(pending, o) == IF o = "raises" THEN "close_error" ELSE pending

\* lines 192-195 and 198-201: `try: await x.close()` / `except Exception:`
\* logs: what is in flight after the try statement, close() having ended as o
\* while `pending` (an exception, or a normal completion) was in flight
close_guarded(pending, o) == pending

\* where the finally clause goes for the session s: lines 191 and 197
finally_from_page(s) ==
    IF s.page # 0 THEN "s_close_page"
    ELSE IF s.context # 0 THEN "s_close_ctx" ELSE "s_left"
finally_from_context(s) ==
    IF s.leaves = "close_error" THEN "s_left"
    ELSE IF s.context # 0 THEN "s_close_ctx" ELSE "s_left"

\* what a get_page call leaves alone once it has been entered
session_vars == <<session_frame, engine, browsers>>

\* lines 128-139 (called at line 305 of get_dob_status, once per attempt):
\* initialize if the engine is not ready, whose exception leaves get_page
\* before the try statement; context = None, page = None; new_context is awaited
SessionEnter(r) ==
    /\ pc[r] = "idle"
    /\ \E o \in InitOutcomes :
        LET init_raises == ~is_ready(engine) /\ initialize_raises(engine, o) IN
        /\ engine' = IF is_ready(engine) THEN engine
                      ELSE initialize(engine, o, next_handle(browsers))
        /\ browsers' = IF ~is_ready(engine) /\ initialize_launches(engine, o)
                        THEN launched(browsers) ELSE browsers
        /\ pc' = [pc EXCEPT ![r] = IF init_raises THEN "s_left" ELSE "s_ctx"]
        /\ session' = [session EXCEPT ![r] =
                IF init_raises
                THEN [NoSession EXCEPT !.body = "setup_error",
                                       !.leaves = "setup_error"]
                ELSE NoSession]
    /\ UNCHANGED <<session_frame, made, open_ctx, open_page>>

\* line 139: new_context returns a context or raises
SessionNewContext(r) ==
    /\ pc[r] = "s_ctx"
    /\ \E o \in AwaitOutcomes :
        IF o = "ok"
        THEN LET c == acquire_context(made) IN
             /\ made.contexts < MaxSessions
             /\ made' = c.made
             /\ session' = [session EXCEPT ![r].context = c.id]
             /\ open_ctx' = [open_ctx EXCEPT ![r] = @ + 1]
             /\ pc' = [pc EXCEPT ![r] = "s_page"]
        ELSE LET s == [session[r] EXCEPT !.body = "setup_error",
                                         !.leaves = "setup_error"] IN
             /\ session' = [session EXCEPT ![r] = s]
             /\ pc' = [pc EXCEPT ![r] = finally_from_page(s)]
             /\ UNCHANGED <<made, open_ctx>>
    /\ UNCHANGED <<session_vars, open_page>>

\* lines 155-187: add_init_script and new_page return, and the page is yielded,
\* or one of them raises
SessionNewPage(r) ==
    /\ pc[r] = "s_page"
    /\ \E o \in AwaitOutcomes :
        IF o = "ok"
        THEN LET p == acquire_page(made) IN
             /\ made.pages < MaxSessions
             /\ made' = p.made
             /\ session' = [session EXCEPT ![r].page = p.id]
             /\ open_page' = [open_page EXCEPT ![r] = @ + 1]
             /\ pc' = [pc EXCEPT ![r] = "s_body"]
        ELSE LET s == [session[r] EXCEPT !.body = "setup_error",
                                         !.leaves = "setup_error"] IN
             /\ session' = [session EXCEPT ![r] = s]
             /\ pc' = [pc EXCEPT ![r] = finally_from_page(s)]
             /\ UNCHANGED <<made, open_page>>
    /\ UNCHANGED <<session_vars, open_ctx>>

\* how the body of `async with get_page(...)` ends (dob_scraper.py lines
\* 306-343): normally (by return or at its end), by PlaywrightTimeout, or by
\* another exception
BodyExits == {"normal", "timeout", "exception"}

\* line 187: the body of the with statement runs on the page and ends
SessionBody(r) ==
    /\ pc[r] = "s_body"
    /\ \E x \in BodyExits :
        LET s == [session[r] EXCEPT !.body = x, !.leaves = x] IN
        /\ session' = [session EXCEPT ![r] = s]
        /\ pc' = [pc EXCEPT ![r] = finally_from_page(s)]
    /\ UNCHANGED <<session_vars, made, open_ctx, open_page>>

\* lines 191-195: page.close() has returned or raised
SessionClosePage(r) ==
    /\ pc[r] = "s_close_page"
    /\ \E o \in AwaitOutcomes :
        LET s == [session[r] EXCEPT
                    !.close_failures = IF o = "raises" THEN @ + 1 ELSE @,
                    !.leaves = close_guarded(@, o)] IN
        /\ session' = [session EXCEPT ![r] = [s EXCEPT !.page = 0]]
        /\ pc' = [pc EXCEPT ![r] = finally_from_context(s)]
    /\ open_page' = [open_page EXCEPT ![r] = close_page(@)]
    /\ UNCHANGED <<session_vars, made, open_ctx>>

\* lines 197-201: context.close() has returned or raised
SessionCloseContext(r) ==
    /\ pc[r] = "s_close_ctx"
    /\ \E o \in AwaitOutcomes :
        /\ session' = [session EXCEPT
                ![r].close_failures = IF o = "raises" THEN @ + 1 ELSE @,
                ![r].leaves = close_guarded(@, o),
                ![r].context = 0]
    /\ pc' = [pc EXCEPT ![r] = "s_left"]
    /\ open_ctx' = [open_ctx EXCEPT ![r] = close_context(@)]
    /\ UNCHANGED <<session_vars, made, open_page>>

\* the with statement is left: its caller has the exception or goes on
SessionLeave(r) ==
    /\ pc[r] = "s_left"
    /\ pc' = [pc EXCEPT ![r] = "idle"]
    /\ session' = [session EXCEPT ![r] = NoSession]
    /\ UNCHANGED <<session_vars, made, open_ctx, open_page>>

\* one step of a get_page call of task r
SessionStep(r) ==
    \/ SessionEnter(r)
    \/ SessionNewContext(r)
    \/ SessionNewPage(r)
    \/ SessionBody(r)
    \/ SessionClosePage(r)
    \/ SessionCloseContext(r)
    \/ SessionLeave(r)

\* NumRequests tasks, each making one get_page call after the other
InitSession == InitWith({0}, {{1}})
NextSession == \E r \in Requests : SessionStep(r)
SpecSession == InitSession /\ [][NextSession]_vars

\* one task making one get_page call after the other
NextSessionSeq == SessionStep(1)
SpecSessionSeq == InitSession /\ [][NextSessionSeq]_vars

(* ------------------- the lookup URL of an address ----------------------- *)
\* A str is the sequence of its characters. The characters a client's street and
\* house number are made of here: a space, a tab and a lower-case letter (the
\* patterns of models.py lines 26-27 admit the three)
Alphabet == {" ", "\t", "a"}

\* the strings of 1 to n characters (Field(min_length=1))
Strings(n) == UNION {[1..k -> Alphabet] : k \in 1..n}

\* what str.strip() and str.split() take for whitespace
Whitespace == {" ", "\t", "\n", "\r"}

\* str.upper() on one character (the letters used here and in the example)
upper_char(c) ==
    CASE c = "a" -> "A" [] c = "e" -> "E" [] c = "i" -> "I" [] c = "n" -> "N"
      [] c = "r" -> "R" [] c = "t" -> "T" [] OTHER -> c

\* str.upper()
upper(s) == [i \in 1..Len(s) |-> upper_char(s[i])]

\* str.lstrip(), str.rstrip() and str.strip()
RECURSIVE lstrip(_)
lstrip(s) == IF s # <<>> /\ Head(s) \in Whitespace THEN lstrip(Tail(s)) ELSE s
RECURSIVE rstrip(_)
rstrip(s) ==
    IF s # <<>> /\ s[Len(s)] \in Whitespace
    THEN rstrip(SubSeq(s, 1, Len(s) - 1)) ELSE s
strip(s) == rstrip(lstrip(s))

\* str.split(): the maximal runs of characters that are not whitespace
RECURSIVE split_from(_, _, _)
split_from(s, word, words) ==
    IF s = <<>>
    THEN IF word = <<>> THEN words ELSE Append(words, word)
    ELSE IF Head(s) \in Whitespace
         THEN split_from(Tail(s), <<>>,
                         IF word = <<>> THEN words ELSE Append(words, word))
         ELSE split_from(Tail(s), Append(word, Head(s)), words)
split(s) == split_from(s, <<>>, <<>>)

\* " ".join(words)
RECURSIVE join(_)
join(words) ==
    IF words = <<>> THEN <<>>
    ELSE IF Len(words) = 1 THEN words[1]
         ELSE words[1] \o <<" ">> \o join(Tail(words))

\* a str.replace whose result is dropped (a str is immutable)
replace_dropped(s, old, new) == s

\* str.replace(old, new) for one-character strings
replace(s, old, new) == [i \in 1..Len(s) |-> IF s[i] = old THEN new ELSE s[i]]

\* a validator raises ValueError, or returns the value v of the field
ValueError == [raised |-> TRUE, v |-> <<>>]
Validated(v) == [raised |-> FALSE, v |-> v]

\* models.py lines 52-68: AddressRequest.validate_house_number (every character
\* of Alphabet matches the pattern)
validate_house_number(v) ==
    LET v1 == strip(v) IN
    IF v1 = <<>> THEN ValueError ELSE Validated(join(split(upper(v1))))

\* models.py lines 70-105: AddressRequest.validate_street (no word made of the
\* characters of Alphabet is one of the abbreviations of lines 88-99)
validate_street(v) ==
    LET v1 == strip(v) IN
    IF v1 = <<>> THEN ValueError ELSE Validated(upper(join(split(v1))))

\* models.py lines 17-23: Borough
Boroughs == {"Manhattan", "Bronx", "Brooklyn", "Queens", "Staten Island"}

\* lines 112-121: DOBScraper._get_borough_code
_get_borough_code(borough) ==
    CASE borough = "Manhattan" -> "1" [] borough = "Bronx" -> "2"
      [] borough = "Brooklyn" -> "3" [] borough = "Queens" -> "4"
      [] borough = "Staten Island" -> "5"

\* lines 131-143 (and 383-392): the query of the URL, as the sequence of the
\* pieces and characters the f-string puts together
address_query(house_number, street, borough) ==
    LET borough_code == _get_borough_code(borough)
        house_num == upper(strip(house_number))
        street_name == upper(strip(street))
    IN  <<"boro=", borough_code, "&", "houseno=">> \o house_num
            \o <<"&", "street=">> \o replace(street_name, " ", "+")

\* what the address calls leave alone
address_frame == <<now, config, session, made, web, breaker, engine, pc, attempt,
                   used_agents, last_error, exit, result, open_ctx, open_page,
                   hist, obs, browsers, evars>>

\* routes/v1.py: the request body is parsed into an AddressRequest, whose field
\* validators normalise house_number and street or reject the request (422)
ValidateAddress ==
    /\ probe.method = "request"
    /\ LET h == validate_house_number(probe.args[1])
           st == validate_street(probe.args[2])
       IN  probe' = IF h.raised \/ st.raised
                    THEN [probe EXCEPT !.method = "rejected"]
                    ELSE [method |-> "AddressRequest",
                          args |-> <<h.v, st.v, probe.args[3]>>, value |-> <<>>]
    /\ UNCHANGED address_frame

\* routes/v1.py lines 83-87 and dob_scraper.py line 286: get_dob_status is
\* given the fields of the AddressRequest and builds its URL
BuildSearchUrl ==
    /\ probe.method = "AddressRequest"
    /\ probe' = [probe EXCEPT
            !.method = "_build_search_url",
            !.value = [servlet |-> "PropertyProfileOverviewServlet",
                       query |-> address_query(probe.args[1], probe.args[2],
                                               probe.args[3])]]
    /\ UNCHANGED address_frame

\* routes/v1.py lines 329-333 and dob_scraper.py lines 382-393:
\* get_violation_history builds its URL in the same way
BuildViolationsUrl ==
    /\ probe.method = "AddressRequest"
    /\ probe' = [probe EXCEPT
            !.method = "get_violation_history",
            !.value = [servlet |-> "ECBQueryByLocationServlet",
                       query |-> address_query(probe.args[1], probe.args[2],
                                               probe.args[3])]]
    /\ UNCHANGED address_frame

\* a client sends any house number, street and borough
InitAddress ==
    InitCalls({0}, {{1}},
              {[method |-> "request", args |-> <<h, st, b>>, value |-> <<>>] :
                  h \in Strings(MaxHouseLen), st \in Strings(MaxStreetLen),
                  b \in Boroughs})
NextAddress == ValidateAddress \/ BuildSearchUrl \/ BuildViolationsUrl
SpecAddress == InitAddress /\ [][NextAddress]_vars

(* ---------------------- DistressScorer._calculate_score ------------------ *)
\* config.py lines 61-66: the scoring weights of Settings
score_vacate_order == 50
score_stop_work_order == 30
score_illegal_conversion_threshold == 2
score_illegal_conversion_bonus == 15
score_heat_water_per_complaint == 5
score_max == 100

\* Python's min(a, b) on integers
Min(a, b) == IF a <= b THEN a ELSE b

\* HPDDataInput as the score reads it: None, or the three class counts (taken
\* on either side of the thresholds of lines 84, 94 and 107)
HPDInputs ==
    {None} \cup {Some([class_a_count |-> a, class_b_count |-> b, class_c_count |-> c]) :
                    a \in {0, 10}, b \in {0, 5}, c \in {0, 1}}

\* scoring.py lines 64-145: DistressScorer._calculate_score
_calculate_score(dob_status, nyc_311_data, hpd_data) ==
    LET vacate == IF dob_status.vacate_order THEN score_vacate_order ELSE 0
        class_c == IF hpd_data # None /\ hpd_data[1].class_c_count > 0 THEN 40 ELSE 0
        stop_work == IF dob_status.stop_work_order THEN score_stop_work_order ELSE 0
        class_b == IF hpd_data # None /\ hpd_data[1].class_b_count >= 5 THEN 20 ELSE 0
        illegal == IF nyc_311_data.illegal_conversion_count
                        > score_illegal_conversion_threshold
                   THEN score_illegal_conversion_bonus ELSE 0
        class_a == IF hpd_data # None /\ hpd_data[1].class_a_count >= 10 THEN 10 ELSE 0
        heat_water_score == nyc_311_data.heat_water_count
                                * score_heat_water_per_complaint
        violation_score == Min(dob_status.open_violations * 3, 15)
        noise_score == Min(nyc_311_data.noise_residential_count * 2, 10)
        score == vacate + class_c + stop_work + class_b + illegal + class_a
                    + heat_water_score + violation_score + noise_score
    IN  Min(score, score_max)

\* scoring.py line 235: analyze computes the score of the data it was given
CalculateScore ==
    /\ probe.method = "analyze"
    /\ probe' = [probe EXCEPT
            !.method = "_calculate_score",
            !.value = _calculate_score(probe.args[1], probe.args[2], probe.args[3])]
    /\ UNCHANGED address_frame

\* the scorer is given any DOB status, 311 data and HPD data
InitScore ==
    InitCalls({0}, {{1}},
              {[method |-> "analyze",
                args |-> <<[open_violations |-> n, stop_work_order |-> swo,
                            vacate_order |-> vo],
                           [illegal_conversion_count |-> ic,
                            heat_water_count |-> hw,
                            noise_residential_count |-> nr],
                           hpd>>,
                value |-> <<>>] :
                  n \in 0..MaxViolations, swo \in BOOLEAN, vo \in BOOLEAN,
                  ic \in 0..MaxComplaints, hw \in 0..MaxComplaints,
                  nr \in 0..MaxComplaints, hpd \in HPDInputs})
NextScore == CalculateScore
SpecScore == InitScore /\ [][NextScore]_vars

(* ------------- get_violation_history: the event of one table row -------- *)
\* what re.search(r"(\d{1,2}/\d{1,2}/\d{4})", text) can match in the texts used
\* here: two calendar dates and 02/30/2020, which has the pattern and is none
DatePatterns ==
    {[month |-> 1, day |-> 5, year |-> 2020],
     [month |-> 12, day |-> 31, year |-> 2021],
     [month |-> 2, day |-> 30, year |-> 2020]}

\* cell.get_text(strip=True) as the loop reads it: the number of its characters
\* and the date patterns in it, from left to right. The texts used here: the
\* empty text, a text of 9 characters without a date pattern, and the texts
\* that are one date pattern
CellTexts ==
    {[len |-> 0, dates |-> <<>>], [len |-> 9, dates |-> <<>>]}
        \cup {[len |-> 10, dates |-> <<d>>] : d \in DatePatterns}

\* the rows of up to n cells
Rows(n) == UNION {[1..k -> CellTexts] : k \in 0..n}

\* line 437: re.search finds the leftmost match (None: no match)
search_date(text) == IF text.dates = <<>> THEN None ELSE Some(text.dates[1])

\* the days of a month of the Gregorian calendar
days_in_month(month, year) ==
    IF month \in {4, 6, 9, 11} THEN 30
    ELSE IF month # 2 THEN 31
    ELSE IF year % 4 = 0 /\ (year % 100 # 0 \/ year % 400 = 0) THEN 29 ELSE 28

\* line 440: datetime.strptime(s, "%m/%d/%Y") raises ValueError unless the
\* month and the day exist
strptime(d) ==
    IF d.month \in 1..12 /\ d.day \in 1..days_in_month(d.month, d.year)
    THEN Validated(d) ELSE ValueError

\* the decimal digit n as a character, and n in `width` digits with zeros
digit(n) ==
    CASE n = 0 -> "0" [] n = 1 -> "1" [] n = 2 -> "2" [] n = 3 -> "3"
      [] n = 4 -> "4" [] n = 5 -> "5" [] n = 6 -> "6" [] n = 7 -> "7"
      [] n = 8 -> "8" [] n = 9 -> "9"
RECURSIVE zero_padded(_, _)
zero_padded(n, width) ==
    IF width = 0 THEN <<>>
    ELSE Append(zero_padded(n \div 10, width - 1), digit(n % 10))

\* line 441: parsed.strftime("%Y-%m-%d"), as the sequence of its characters
strftime(d) ==
    zero_padded(d.year, 4) \o <<"-">> \o zero_padded(d.month, 2)
        \o <<"-">> \o zero_padded(d.day, 2)

\* line 428: date_str = "Unknown"
Unknown == <<"U", "n", "k", "n", "o", "w", "n">>

\* a loop body that keeps the date it has found
cell_date_keeps_first(text, date_str) ==
    LET date_match == search_date(text) IN
    IF date_str = Unknown /\ date_match # None /\ ~strptime(date_match[1]).raised
    THEN strftime(strptime(date_match[1]).v)
    ELSE date_str

\* lines 434-443: date_str after the loop body has read one cell
cell_date(text, date_str) ==
    LET date_match == search_date(text) IN
    IF date_match # None /\ ~strptime(date_match[1]).raised
    THEN strftime(strptime(date_match[1]).v)
    ELSE date_str

\* lines 453-458: is description non-empty after the loop body has read the cell
cell_described(text, described) ==
    described \/ (text.len > 5 /\ search_date(text) = None)

\* lines 433-458: the loop over the cells, from the first to the last
RECURSIVE scan_cells(_, _, _)
scan_cells(cells, date_str, described) ==
    IF cells = <<>> THEN [date_str |-> date_str, described |-> described]
    ELSE scan_cells(Tail(cells), cell_date(Head(cells), date_str),
                    cell_described(Head(cells), described))

\* lines 425-467: the events one row appends: none for a row of fewer than 3
\* cells and for a row with neither a date nor a description, else one event
\* (of which the date is kept here; event_type and status are read from the
\* cells by lines 445-451 and decide nothing)
row_events(cells) ==
    IF Len(cells) >= 3
    THEN LET end == scan_cells(cells, Unknown, FALSE) IN
         IF end.date_str # Unknown \/ end.described
         THEN <<[date |-> end.date_str]>> ELSE <<>>
    ELSE <<>>

\* lines 424-467 for one row of the page
ExtractRow ==
    /\ probe.method = "row"
    /\ probe' = [probe EXCEPT !.method = "events",
                              !.value = row_events(probe.args[1])]
    /\ UNCHANGED address_frame

\* the page holds any row
InitRow ==
    InitCalls({0}, {{1}},
              {[method |-> "row", args |-> <<cells>>, value |-> <<>>] :
                  cells \in Rows(MaxCells)})
NextRow == ExtractRow
SpecRow == InitRow /\ [][NextRow]_vars

(* ----------------------------- main.py lifespan ------------------------- *)
\* what startup and shutdown leave alone
lifespan_frame == <<now, config, probe, session, made, limiter, keys, breaker,
                    pc, attempt, used_agents, last_error, exit, result,
                    open_ctx, open_page, hist, obs, lock, op, handle, events>>

\* lines 70-80: `_browser_manager = await BrowserManager.get_instance()` inside
\* try; an exception of initialize is logged and leaves _browser_manager None;
\* the application then serves requests
LifespanStartup ==
    /\ app.phase = "startup"
    /\ \E o \in InitOutcomes :
        LET e1 == [engine EXCEPT !._instance = TRUE] IN
        /\ engine' = initialize(e1, o, next_handle(browsers))
        /\ browsers' = IF initialize_launches(e1, o) THEN launched(browsers)
                        ELSE browsers
        /\ app' = [phase |-> "serving",
                   _browser_manager |-> ~initialize_raises(e1, o)]
    /\ UNCHANGED <<lifespan_frame, closed>>

\* line 80: between startup and shutdown the routes call get_dob_status
Serve(r) == app.phase = "serving" /\ Step(r)

\* lines 82-88, once the requests in progress are over: `if _browser_manager:`
\* close() (browser_manager.py lines 81-100: the browser is closed if there is
\* one, playwright is stopped, the fields are reset)
LifespanShutdown ==
    /\ app.phase = "serving"
    /\ \A r \in Requests : pc[r] = "idle"
    /\ IF app._browser_manager
       THEN /\ browsers' = closed_handle(browsers, engine._browser)
            /\ engine' = close_finished(close_browser_done(engine))
            /\ closed' = TRUE
       ELSE UNCHANGED <<engine, browsers, closed>>
    /\ app' = [app EXCEPT !.phase = "stopped"]
    /\ UNCHANGED lifespan_frame

\* the application from its start to its end, serving get_dob_status calls
InitLifespan == InitWith({0}, {{1}})
NextLifespan ==
    LifespanStartup \/ (\E r \in Requests : Serve(r)) \/ LifespanShutdown
SpecLifespan == InitLifespan /\ [][NextLifespan]_vars

(* --------------------------- RateLimitMiddleware ------------------------ *)
\* lines 94-114: the limit _get_rate_limit returns with an identifier
rate_limit(identifier) == RateLimit

\* lines 127-134: the timestamps kept at time t: those after t - _window_size
clean(stamps, t) == SelectSeq(stamps, LAMBDA ts : ts > t - _window_size)

\* the smallest timestamp of a non-empty list
oldest_of(stamps) ==
    CHOOSE ts \in {stamps[k] : k \in 1..Len(stamps)} :
        \A k \in 1..Len(stamps) : ts <= stamps[k]

\* an _is_rate_limited that compares with > instead of >=
_is_rate_limited_late(stamps, limit, t) ==
    LET kept == clean(stamps, t)
        request_count == Len(kept)
        oldest == IF kept # <<>> THEN oldest_of(kept) ELSE t
    IN  IF request_count > limit
        THEN [is_limited |-> TRUE,
              retry_after |-> Max(1, _window_size - (t - oldest)),
              remaining |-> 0, _requests |-> kept]
        ELSE [is_limited |-> FALSE, retry_after |-> 0,
              remaining |-> Max(0, limit - request_count), _requests |-> kept]

\* lines 116-146: _is_rate_limited at time t for the timestamps of one
\* identifier: the tuple returned and the list the call leaves in _requests
_is_rate_limited(stamps, limit, t) ==
    LET kept == clean(stamps, t)
        request_count == Len(kept)
        oldest == IF kept # <<>> THEN oldest_of(kept) ELSE t
    IN  IF request_count >= limit
        THEN [is_limited |-> TRUE,
              retry_after |-> Max(1, _window_size - (t - oldest)),
              remaining |-> 0, _requests |-> kept]
        ELSE [is_limited |-> FALSE, retry_after |-> 0,
              remaining |-> Max(0, limit - request_count), _requests |-> kept]

\* lines 148-150: _record_request at time t
_record_request(stamps, t) == Append(stamps, t)

\* what the middleware leaves alone
limiter_frame == <<now, config, probe, session, made, app, keys, breaker,
                   engine, attempt, used_agents, last_error, exit, result,
                   open_ctx, open_page, hist, obs, browsers, evars>>

\* the paths dispatch tells apart (line 156): one it passes on untouched, and
\* one it limits
RatePaths == {"/health", "/v1/analyze"}

\* lines 152-183: dispatch up to `await call_next(request)`, for a request
\* with the identifier i: a skipped path is passed on; else the timestamps of
\* i are cleaned and counted, and the request is rejected with 429 or recorded
\* and passed on. No await separates the check from the record
RateDispatch(r) ==
    /\ pc[r] = "idle"
    /\ \E path \in RatePaths, i \in Identifiers :
        IF path = "/health"
        THEN /\ pc' = [pc EXCEPT ![r] = "rl_skipped"]
             /\ UNCHANGED limiter
        ELSE LET c == _is_rate_limited(limiter._requests[i], rate_limit(i), now) IN
             IF c.is_limited
             THEN /\ pc' = [pc EXCEPT ![r] = "rl_429"]
                  /\ limiter' = [limiter EXCEPT !._requests[i] = c._requests]
             ELSE /\ pc' = [pc EXCEPT ![r] = "rl_next"]
                  /\ limiter' = [limiter EXCEPT
                        !._requests[i] = _record_request(c._requests, now),
                        !.identifier[r] = i,
                        !.admitted[i] = Append(@, now)]
    /\ UNCHANGED limiter_frame

\* lines 183-194: call_next has returned: the remaining count is computed
\* again (which cleans the list) for the headers, and the response goes to the
\* client; or call_next has raised, and the exception does
RateCallNext(r) ==
    /\ pc[r] \in {"rl_next", "rl_skipped"}
    /\ \E o \in AwaitOutcomes :
        IF o = "ok" /\ pc[r] = "rl_next"
        THEN LET i == limiter.identifier[r] IN
             limiter' = [limiter EXCEPT
                !._requests[i] = _is_rate_limited(@, rate_limit(i), now)._requests,
                !.identifier[r] = ""]
        ELSE limiter' = [limiter EXCEPT !.identifier[r] = ""]
    /\ pc' = [pc EXCEPT ![r] = "idle"]
    /\ UNCHANGED limiter_frame

\* the client has the 429
RateReturn(r) ==
    /\ pc[r] = "rl_429"
    /\ pc' = [pc EXCEPT ![r] = "idle"]
    /\ UNCHANGED <<limiter, limiter_frame>>

\* one step of the dispatch call of task r
RateStep(r) == RateDispatch(r) \/ RateCallNext(r) \/ RateReturn(r)

\* time passes; what was admitted _window_size seconds ago or earlier is in no
\* window that ends from now on
RateTick ==
    /\ now < MaxTime
    /\ now' = now + 1
    /\ limiter' = [limiter EXCEPT !.admitted =
            [i \in Identifiers |->
                SelectSeq(limiter.admitted[i], LAMBDA ts : ts > now' - _window_size)]]
    /\ UNCHANGED <<config, probe, session, made, app, keys, breaker, engine, pc,
                   attempt, used_agents, last_error, exit, result, open_ctx,
                   open_page, hist, obs, browsers, evars>>

\* NumRequests tasks sending requests over and over while time passes
InitRate == InitWith({0}, {{1}})
NextRate == (\E r \in Requests : RateStep(r)) \/ RateTick
SpecRate == InitRate /\ [][NextRate]_vars

(* ---------------------- APIKeyMiddleware, APIKeyManager ------------------ *)
\* api_keys.py lines 104-107: APIKeyData.is_over_monthly_limit
is_over_monthly_limit(k) == k.calls_this_month >= monthly_limit

\* api_keys.py lines 211-216: validate_key on an active key, in the calendar
\* month k.month: the counter of another month is reset
validate_key(k) ==
    IF k.current_month # k.month
    THEN [k EXCEPT !.current_month = k.month, !.calls_this_month = 0]
    ELSE k

\* a record_usage that counts without looking at the limit
record_usage_unchecked(k) ==
    [k EXCEPT !.calls_this_month = @ + 1,
              !.counted[k.current_month] = @ + 1]

\* api_keys.py lines 220-247: record_usage, under the lock of the manager: a
\* key over its limit is not counted
record_usage(k) ==
    IF is_over_monthly_limit(k) THEN k
    ELSE [k EXCEPT !.calls_this_month = @ + 1,
                   !.counted[k.current_month] = @ + 1]

\* what the middleware leaves alone
keys_frame == <<now, config, probe, session, made, app, limiter, breaker,
                engine, attempt, used_agents, last_error, exit, result,
                open_ctx, open_page, hist, obs, browsers, evars>>

\* the requests dispatch tells apart: a public path (or require_api_key off),
\* no key, a key validate_key does not know, and the key of the manager
KeyRequests == {"public", "missing", "invalid", "valid"}

\* api_key.py lines 52-116: dispatch up to `await call_next(request)`: a public
\* request is passed on; a request without a valid key is rejected (401, 403);
\* validate_key resets the counter in a new month; a key over its limit is
\* rejected (429); else the request is passed on
KeyDispatch(r) ==
    /\ pc[r] = "idle"
    /\ \E q \in KeyRequests :
        IF q = "public"
        THEN pc' = [pc EXCEPT ![r] = "k_untracked"] /\ UNCHANGED keys
        ELSE IF q \in {"missing", "invalid"}
        THEN pc' = [pc EXCEPT ![r] = "k_rejected"] /\ UNCHANGED keys
        ELSE LET key_data == validate_key(keys) IN
             /\ keys' = key_data
             /\ pc' = [pc EXCEPT ![r] = IF is_over_monthly_limit(key_data)
                                        THEN "k_rejected" ELSE "k_next"]
    /\ UNCHANGED keys_frame

\* the status of the response call_next returns (below 400, or not), or its
\* exception
Responses == {"ok", "error", "raises"}

\* api_key.py lines 116-129: call_next has returned or raised; the usage of a
\* response below 400 is recorded; the response goes to the client
KeyCallNext(r) ==
    /\ pc[r] \in {"k_next", "k_untracked"}
    /\ \E o \in Responses :
        IF o = "ok" /\ pc[r] = "k_next"
        THEN keys' = record_usage([keys EXCEPT !.served[keys.current_month] = @ + 1])
        ELSE UNCHANGED keys
    /\ pc' = [pc EXCEPT ![r] = "idle"]
    /\ UNCHANGED keys_frame

\* the client has the 401, the 403 or the 429
KeyReturn(r) ==
    /\ pc[r] = "k_rejected"
    /\ pc' = [pc EXCEPT ![r] = "idle"]
    /\ UNCHANGED <<keys, keys_frame>>

\* the calendar month changes
NextMonth ==
    /\ keys.month < MaxMonth
    /\ keys' = [keys EXCEPT !.month = @ + 1]
    /\ UNCHANGED <<pc, keys_frame>>

\* one step of the dispatch call of task r
KeyStep(r) == KeyDispatch(r) \/ KeyCallNext(r) \/ KeyReturn(r)

\* NumRequests tasks sending requests over and over while the months pass
InitKeys == InitWith({0}, {{1}})
NextKeys == (\E r \in Requests : KeyStep(r)) \/ NextMonth
SpecKeys == InitKeys /\ [][NextKeys]_vars

(* ------------------------------- claims --------------------------------- *)
\* request r calls is_available in this step (lines 278-279) ...
Checks(r) == pc[r] = "idle" /\ pc'[r] # "idle"
\* ... and is_available returned false: the fast-fail result of lines 281-284
Refused(r) == pc'[r] = "done" /\ result'[r].returned /\ result'[r].error = "circuit_open"
\* ... or it returned true: the call goes on to line 286
Admitted(r) == pc'[r] = "getmgr"
\* cooldown_seconds have elapsed since the time `since` (None: no such time)
Elapsed(since) == since # None /\ now - since[1] >= cooldown_seconds
\* request r reports a failure / a success to the breaker in this step
ReportsFailure(r) == hist'[r].failures = hist[r].failures + 1
ReportsSuccess(r) == hist'[r].successes = hist[r].successes + 1
\* request r has the fast-fail result in hand
FastFailed(r) == pc[r] = "done" /\ result[r].error = "circuit_open"

\* C1, in states: once failure_threshold record_failure calls were made with no
\* record_success in between, the breaker is OPEN, and it is HALF_OPEN only after
\* cooldown_seconds have elapsed since it opened
C1_State ==
    obs.fail_run >= failure_threshold =>
        \/ breaker.state = "OPEN"
        \/ breaker.state = "HALF_OPEN" /\ Elapsed(obs.opened_at)

\* C1, in steps: after such a run of failures, an is_available call made before
\* cooldown_seconds have elapsed since the breaker opened returns false
C1_Step ==
    \A r \in Requests :
        Checks(r) /\ obs.fail_run >= failure_threshold /\ ~Elapsed(obs.opened_at)
            => Refused(r) /\ breaker'.state = "OPEN"

\* C1: from CLOSED with no failures, failure_threshold record_failure calls with
\* no record_success in between leave the breaker OPEN, and is_available returns
\* false until cooldown_seconds have elapsed
C1_OpenAfterThreshold == []C1_State /\ [][C1_Step]_vars

\* C1 witness: the run of failures has just reached the threshold, the breaker
\* is OPEN and a call made since then, before the cooldown, was refused
C1_Witness ==
    /\ obs.fail_run = failure_threshold
    /\ breaker.state = "OPEN"
    /\ ~Elapsed(obs.opened_at)
    /\ obs.refused
    /\ \E r \in Requests : FastFailed(r)

\* C2 as stated: once cooldown_seconds have elapsed since the breaker entered
\* OPEN, the next is_available call moves it to HALF_OPEN and returns true,
\* whatever was reported while it was OPEN
C2_SinceOpened ==
    [][\A r \in Requests :
        Checks(r) /\ breaker.state = "OPEN" /\ Elapsed(obs.opened_at)
            => breaker'.state = "HALF_OPEN" /\ Admitted(r)]_vars

\* C2 amended: once cooldown_seconds (inclusive) have elapsed since the most
\* recent record_failure, the next is_available call on an OPEN breaker moves it
\* to HALF_OPEN and returns true
C2_SinceLastFailure ==
    [][\A r \in Requests :
        Checks(r) /\ breaker.state = "OPEN" /\ Elapsed(obs.last_failure_at)
            => breaker'.state = "HALF_OPEN" /\ Admitted(r)]_vars

\* C2 witness: a request was let through to HALF_OPEN exactly cooldown_seconds
\* after the last failure, which was reported after the breaker had opened
C2_Witness ==
    /\ breaker.state = "HALF_OPEN"
    /\ obs.last_failure_at # None /\ obs.opened_at # None
    /\ obs.opened_at[1] < obs.last_failure_at[1]
    /\ now - obs.last_failure_at[1] = cooldown_seconds
    /\ \E r \in Requests : pc[r] = "getmgr" /\ obs.trial = r

\* C3: a record_failure made in HALF_OPEN moves the breaker to OPEN with
\* last_failure_time the time of that call, and is_available returns false until
\* cooldown_seconds have elapsed since that failure
C3_HalfOpenFailure ==
    [][\A r \in Requests :
        /\ ReportsFailure(r) /\ breaker.state = "HALF_OPEN"
            => /\ breaker'.state = "OPEN"
               /\ breaker'.last_failure_time = Some(now)
        /\ Checks(r) /\ obs.half_open_failure_at # None
                     /\ ~Elapsed(obs.half_open_failure_at)
            => Refused(r) /\ breaker'.state = "OPEN"]_vars

\* C3 witness: a failure was reported in HALF_OPEN, it is the last report made,
\* and a call made at a later time was refused
C3_Witness ==
    /\ breaker.state = "OPEN"
    /\ obs.half_open_failure_at # None
    /\ breaker.last_failure_time = obs.half_open_failure_at
    /\ obs.last_failure_at = obs.half_open_failure_at
    /\ now > obs.half_open_failure_at[1]
    /\ obs.refused
    /\ \E r \in Requests : FastFailed(r) /\ hist[r] = NoHist

\* C4: after a record_success call consecutive_failures is 0, and a success
\* reported in HALF_OPEN or in CLOSED leaves the breaker CLOSED
C4_Success ==
    [][\A r \in Requests :
        ReportsSuccess(r)
            => /\ breaker'.consecutive_failures = 0
               /\ (breaker.state \in {"HALF_OPEN", "CLOSED"}
                     => breaker'.state = "CLOSED")]_vars

\* C4 witness: a request reported its success while the breaker was HALF_OPEN
\* with failures counted, and the breaker is CLOSED with none
C4_Witness ==
    /\ breaker.state = "CLOSED" /\ breaker.consecutive_failures = 0
    /\ obs.opened_at # None
    /\ \E r \in Requests :
        hist[r].successes = 1 /\ hist[r].reported_in = "HALF_OPEN"

\* C5: while a request let through in HALF_OPEN is in flight and no outcome has
\* been reported, is_available lets no other request through
C5_OneTrial ==
    [][\A r \in Requests :
        Checks(r) /\ breaker.state = "HALF_OPEN" /\ obs.trial # 0
                  /\ obs.trial # r /\ pc[obs.trial] \notin {"idle", "done", "raised"}
            => ~Admitted(r)]_vars

\* C6: a call made while the breaker is OPEN and the cooldown has not elapsed
\* returns an error result in that very step: no session, no navigation, no
\* change of the breaker, no report
C6_FastFail ==
    [][\A r \in Requests :
        Checks(r) /\ breaker.state = "OPEN" /\ ~Elapsed(obs.last_failure_at)
            => /\ Refused(r)
               /\ result'[r].error # "null"
               /\ UNCHANGED <<breaker, engine, open_ctx, open_page, hist>>
               /\ [obs' EXCEPT !.refused = obs.refused] = obs]_vars

\* C6 witness: since the last report a call came back with the circuit-open
\* error, the breaker being OPEN and inside its cooldown, with no session held
C6_Witness ==
    /\ breaker.state = "OPEN"
    /\ ~Elapsed(obs.last_failure_at)
    /\ obs.refused
    /\ \E r \in Requests :
        /\ FastFailed(r) /\ hist[r] = NoHist
        /\ open_ctx[r] = 0 /\ open_page[r] = 0

\* C7: record_failure is invoked at most once per call and only when the call is
\* over; when every attempt ended in a timeout, an HTTP error or a transport
\* failure the call is over right after the last one, with a non-null error and
\* exactly one record_failure
C7_OneFailureReport ==
    \A r \in Requests :
        /\ hist[r].failures <= 1
        /\ hist[r].failures = 1 => pc[r] = "done"
        /\ hist[r].failed_attempts = dob_retry_count + 1
            => /\ pc[r] = "done"
               /\ result[r].returned /\ result[r].error # "null"
               /\ hist[r].failures = 1 /\ hist[r].successes = 0

\* C7 witness: a call with retries has returned after all its attempts failed
C7_Witness ==
    \E r \in Requests :
        /\ pc[r] = "done" /\ dob_retry_count >= 1
        /\ hist[r].failed_attempts = dob_retry_count + 1
        /\ hist[r].failures = 1 /\ result[r].error = "scrape_failed"

\* C8: a status without error is reported with record_success as it is produced
\* and is what the call returns: afterwards the call only closes its session and
\* returns, with no further attempt, no failure report and the breaker CLOSED
C8_SuccessEndsCall ==
    \A r \in Requests :
        /\ (result[r].returned /\ result[r].error = "null") <=> hist[r].successes = 1
        /\ hist[r].successes >= 1
            => /\ hist[r].successes = 1 /\ hist[r].failures = 0
               /\ pc[r] = "done" \/ (pc[r] = "teardown" /\ exit[r] = "return")
               /\ result[r] # NoResult
               /\ breaker.state = "CLOSED" /\ breaker.consecutive_failures = 0

\* C8 witness: a call returned a clean status from a retry while attempts remained
C8_Witness ==
    \E r \in Requests :
        /\ pc[r] = "done" /\ result[r].error = "null"
        /\ attempt[r] >= 1 /\ attempt[r] < dob_retry_count
        /\ open_ctx[r] = 0

\* C9: within one call no identity is handed to get_page a second time while an
\* identity of the pool is still unused
C9_NoEarlyReuse ==
    \A r \in Requests : ~hist[r].early_reuse

\* C9 witness: an attempt beyond the size of the pool is under way, every
\* identity having been used
C9_Witness ==
    \E r \in Requests :
        /\ pc[r] = "goto" /\ attempt[r] >= Cardinality(USER_AGENTS)
        /\ Cardinality(USER_AGENTS) >= 2
        /\ hist[r].identities = USER_AGENTS

\* C10: when a call is over (returned or raised), and before it starts, the
\* request holds no open browser context and no open page
C10_SessionsReleased ==
    \A r \in Requests :
        pc[r] \in {"idle", "done", "raised"} => open_ctx[r] = 0 /\ open_page[r] = 0

\* C10 witness: a call that retried after a failed attempt has returned a clean
\* status, after an earlier call had ended in exhaustion
C10_Witness ==
    \E r \in Requests :
        /\ pc[r] = "done" /\ result[r].error = "null"
        /\ hist[r].failed_attempts >= 1
        /\ obs.opened_at # None
        /\ open_ctx[r] = 0 /\ open_page[r] = 0

\* C11: get_dob_status never raises: whatever the engine, the session, the
\* navigation and the extraction do, a call that is over has returned a
\* DOBStatus, and one that did not end with a clean status carries an error
C11_NeverRaises ==
    \A r \in Requests :
        /\ pc[r] # "raised"
        /\ pc[r] = "done"
            => /\ result[r].returned
               /\ hist[r].successes = 0 => result[r].error # "null"

\* C12: get_violation_history never raises: whatever fails, the call returns its
\* list of events, which is empty when nothing was extracted
C12_HistoryNeverRaises ==
    \A r \in Requests :
        /\ pc[r] # "h_raised"
        /\ pc[r] = "h_done" => events[r] \in 0..MaxEvents

\* C13: a parse-only failure counts as a success for the breaker: a call whose
\* current attempt retrieved markup on which extraction set an error has made
\* no record_failure call, and once it is over it has reported a success
C13_ParseErrorIsSuccess ==
    \A r \in Requests :
        hist[r].markup = "parse_error"
            => /\ hist[r].failures = 0
               /\ pc[r] = "done" => hist[r].successes = 1

\* C14: when extraction sets a parse error the call returns at once, with no
\* further attempt, and what it returns is the extracted status: the fields
\* resolved so far together with the parse error
C14_ParseErrorReturned ==
    \A r \in Requests :
        hist[r].markup = "parse_error"
            => /\ pc[r] \in {"teardown", "done"}
               /\ attempt[r] = hist[r].failed_attempts
               /\ pc[r] = "done"
                    => /\ result[r].error = "parse_error"
                       /\ result[r].fields = "extracted"

C16_ClosedIsFinal ==
    [][closed /\ Len(browsers) >= 1
        => /\ \A r \in Requests : open_ctx'[r] <= open_ctx[r]
           /\ ~is_ready(engine')]_vars

\* C17: at any time at most one browser process launched by the engine is alive,
\* and it is the one the engine's _browser refers to: no handle of a live
\* browser was overwritten or dropped
C17_OneBrowser ==
    /\ Cardinality(alive(browsers)) <= 1
    /\ \A h \in alive(browsers) : engine._browser = Some(h)

\* C18: initialize() called on an engine that is ready returns at once: nothing
\* is launched and the engine is as it was
C18_InitializeIdempotent ==
    [][\A r \in Requests :
        pc[r] = "idle" /\ op'[r] = "initialize" /\ is_ready(engine)
            => /\ pc'[r] = "e_noop"
               /\ engine' = engine
               /\ browsers' = browsers]_vars

\* C18 witness: initialize() has returned at once on a ready engine whose one
\* browser is alive
C18_Witness ==
    /\ is_ready(engine)
    /\ alive(browsers) = {1} /\ Len(browsers) = 1
    /\ \E r \in Requests : pc[r] = "e_noop" /\ op[r] = "initialize"

\* C19, in states: close() never raises, when it has returned the engine is not
\* ready and has no browser handle, and no browser was closed twice
C19_State ==
    /\ \A r \in Requests :
        op[r] = "close"
            => /\ pc[r] # "e_raised"
               /\ pc[r] \in {"e_noop", "e_done"}
                    => /\ engine._browser = None
                       /\ ~engine._initialized /\ ~is_ready(engine)
    /\ \A h \in 1..Len(browsers) : browsers[h] <= 1

\* C19, in steps: close() called after a close() that has returned, or on an
\* engine that has nothing to close, returns at once and closes nothing
C19_Step ==
    \A r \in Requests :
        (/\ pc[r] = "idle" /\ op'[r] = "close"
         /\ engine._browser = None /\ ~engine._playwright)
            => /\ pc'[r] = "e_noop"
               /\ browsers' = browsers
               /\ engine' = engine

\* C19: close() is idempotent: a second call, or a call on an engine that was
\* never initialized, raises nothing, closes nothing twice and leaves the engine
\* not ready with no browser handle
C19_CloseIdempotent == []C19_State /\ [][C19_Step]_vars

\* C19 witness: a browser was launched and closed, and a second close() has
\* returned at once
C19_Witness ==
    /\ closed /\ Len(browsers) >= 1
    /\ \A h \in 1..Len(browsers) : browsers[h] = 1
    /\ \E r \in Requests : pc[r] = "e_noop" /\ op[r] = "close"

\* C20, in steps: a record_failure made by any of the concurrent requests adds
\* exactly one to consecutive_failures, and leaves the breaker OPEN when the
\* count has reached failure_threshold
C20_Step ==
    \A r \in Requests :
        ReportsFailure(r)
            => /\ breaker'.consecutive_failures = breaker.consecutive_failures + 1
               /\ breaker'.consecutive_failures >= failure_threshold
                    => breaker'.state = "OPEN"

\* C20: with several requests reporting to the one breaker, consecutive_failures
\* is the number of record_failure calls made since the last record_success (no
\* update is lost) and no report misses the move to OPEN
C20_NoLostUpdate ==
    /\ [](breaker.consecutive_failures = obs.fail_run)
    /\ [][C20_Step]_vars

\* C20 witness: two requests in flight together have both reported a failure,
\* and the breaker, which counted both, is OPEN
C20_Witness ==
    /\ breaker.state = "OPEN"
    /\ breaker.consecutive_failures = failure_threshold
    /\ \E r1, r2 \in Requests :
        /\ r1 # r2
        /\ pc[r1] = "done" /\ hist[r1].failures = 1
        /\ pc[r2] = "done" /\ hist[r2].failures = 1

\* get_status is called in this step
GetsStatus == probe'.method = "get_status" /\ UNCHANGED <<now, pc, attempt>>

\* C21: is_available never changes consecutive_failures or last_failure_time,
\* and changes state only from OPEN to HALF_OPEN once cooldown_seconds have
\* elapsed since last_failure_time; get_status changes no field of the breaker
C21_ReadOnly ==
    [][/\ \A r \in Requests :
            Checks(r)
                => /\ breaker'.consecutive_failures = breaker.consecutive_failures
                   /\ breaker'.last_failure_time = breaker.last_failure_time
                   /\ breaker'.state # breaker.state
                        => /\ breaker.state = "OPEN"
                           /\ breaker'.state = "HALF_OPEN"
                           /\ Elapsed(breaker.last_failure_time)
       /\ GetsStatus => breaker' = breaker]_vars

\* C21 witness: get_status read an OPEN breaker whose cooldown had elapsed and
\* left it OPEN; the is_available call that followed moved it to HALF_OPEN with
\* the failure count and the failure time as they were
C21_Witness ==
    /\ probe.method = "get_status"
    /\ probe.value.state = "OPEN" /\ probe.value.cooldown_remaining = 0
    /\ breaker.state = "HALF_OPEN"
    /\ breaker.consecutive_failures = probe.value.consecutive_failures
    /\ Elapsed(breaker.last_failure_time)
    /\ pc[1] = "getmgr"

\* C22, in states: the cooldown_remaining reported lies between 0 and
\* cooldown_seconds, and it is 0 when the state reported is not OPEN
C22_State ==
    probe.method = "get_status"
        => /\ probe.value.cooldown_remaining \in 0..cooldown_seconds
           /\ probe.value.state # "OPEN" => probe.value.cooldown_remaining = 0

\* C22, in steps: get_status reports the state and the failure count of the
\* breaker, and for an OPEN breaker what is left of cooldown_seconds since
\* last_failure_time, not below 0
C22_Step ==
    GetsStatus
        => /\ probe'.value.state = breaker.state
           /\ probe'.value.consecutive_failures = breaker.consecutive_failures
           /\ breaker.state = "OPEN"
                => /\ breaker.last_failure_time # None
                   /\ probe'.value.cooldown_remaining =
                        Max(0, cooldown_seconds - (now - breaker.last_failure_time[1]))

\* C22: get_status reports state and consecutive_failures, cooldown_remaining = 0
\* when not OPEN and max(0, cooldown_seconds - elapsed) when OPEN, always within
\* 0..cooldown_seconds
C22_Status == []C22_State /\ [][C22_Step]_vars

\* C22 witness: get_status read an OPEN breaker in the middle of its cooldown
C22_Witness ==
    /\ probe.method = "get_status"
    /\ probe.value.state = "OPEN"
    /\ probe.value.cooldown_remaining > 0
    /\ probe.value.cooldown_remaining < cooldown_seconds
    /\ probe.value.consecutive_failures >= failure_threshold

\* C23: when get_page is left, what its caller has is what the body of the with
\* statement (or the setup of the session) ended with, an exception or a normal
\* completion, whatever the two close() calls did; and close() was called on
\* every page and every context made, the context's also after a failed
\* page.close()
C23_CloseFailuresSwallowed ==
    \A r \in Requests :
        pc[r] = "s_left"
            => /\ session[r].leaves = session[r].body
               /\ open_page[r] = 0 /\ session[r].page = 0
               /\ open_ctx[r] = 0 /\ session[r].context = 0

\* C23 witness: the body ended in a timeout, page.close() raised, context.close()
\* was called all the same and raised too, and get_page is left with the timeout
C23_Witness ==
    \E r \in Requests :
        /\ pc[r] = "s_left"
        /\ session[r].body = "timeout" /\ session[r].leaves = "timeout"
        /\ session[r].close_failures = 2

\* C24, in states: no two tasks hold the same context or the same page
C24_State ==
    \A r1, r2 \in Requests :
        r1 # r2
            => /\ session[r1].context # 0 => session[r1].context # session[r2].context
               /\ session[r1].page # 0 => session[r1].page # session[r2].page

\* C24, in steps: the context and the page a get_page call runs on did not
\* exist before that call made them
C24_Step ==
    \A r \in Requests :
        /\ session'[r].context \notin {0, session[r].context}
            => session'[r].context \notin 1..made.contexts
        /\ session'[r].page \notin {0, session[r].page}
            => session'[r].page \notin 1..made.pages

\* C24: every attempt runs in a context and a page created for it: none is used
\* by two attempts or by two requests, in flight together or not
C24_FreshSessions == []C24_State /\ [][C24_Step]_vars

\* C24 witness: two tasks are in the body of their with statements together,
\* each on its own context and page, after an earlier session was closed
C24_Witness ==
    \E r1, r2 \in Requests :
        /\ r1 # r2
        /\ pc[r1] = "s_body" /\ pc[r2] = "s_body"
        /\ session[r1].context # session[r2].context
        /\ session[r1].page # session[r2].page
        /\ made.contexts >= 3 /\ made.pages >= 3

\* the claim's street: each run of whitespace replaced by a single "+"
RECURSIVE runs_to_plus(_)
runs_to_plus(s) ==
    IF s = <<>> THEN <<>>
    ELSE IF Head(s) \in Whitespace
         THEN <<"+">> \o runs_to_plus(lstrip(s))
         ELSE <<Head(s)>> \o runs_to_plus(Tail(s))

\* the claim's query for a house number, a street and a borough code
ClaimedQuery(house_number, street, code) ==
    <<"boro=", code, "&", "houseno=">> \o upper(strip(house_number))
        \o <<"&", "street=">> \o runs_to_plus(upper(strip(street)))

\* the claim's example, sent by a client
ExampleHouse == <<"1", "2", "3">>
ExampleStreet == <<"M", "a", "i", "n", " ", "S", "t", "r", "e", "e", "t">>
ExampleQuery ==
    <<"boro=", "1", "&", "houseno=", "1", "2", "3", "&", "street=",
      "M", "A", "I", "N", "+", "S", "T", "R", "E", "E", "T">>

OnlyViolations ==
    /\ probe.method = "_calculate_score"
    /\ ~probe.args[1].stop_work_order /\ ~probe.args[1].vacate_order
    /\ probe.args[2] = [illegal_conversion_count |-> 0, heat_water_count |-> 0,
                        noise_residential_count |-> 0]
    /\ probe.args[3] \in {None, Some([class_a_count |-> 0, class_b_count |-> 0,
                                      class_c_count |-> 0])}

\* C26: each open DOB violation adds 3 points: with no other signal, n open DOB
\* violations give a score of min(3*n, 100)
C26_ThreePerViolation ==
    OnlyViolations
        => probe.value = Min(3 * probe.args[1].open_violations, 100)

\* C27: every call the breaker admitted reports exactly one outcome before it
\* returns: record_success when it returns a result obtained from the DOB site,
\* record_failure when its attempts are exhausted; none returns without a
\* report and none reports twice
C27_OneReport ==
    \A r \in Requests :
        /\ hist[r].successes + hist[r].failures <= 1
        /\ (pc[r] = "done" /\ ~FastFailed(r))
            => /\ hist[r].successes + hist[r].failures = 1
               /\ hist[r].failures = 1 <=> result[r].error = "scrape_failed"

\* C28: the breaker leaves OPEN only in an is_available call made once
\* cooldown_seconds have elapsed since last_failure_time, and then for HALF_OPEN:
\* no report of a request, admitted before it opened or not, takes it out of OPEN
C28_OpenUntilCooldown ==
    [][breaker.state = "OPEN" /\ breaker'.state # "OPEN"
        => /\ breaker'.state = "HALF_OPEN"
           /\ Elapsed(breaker.last_failure_time)
           /\ \E r \in Requests : Checks(r) /\ Admitted(r)]_vars

\* request r acquires a session in this step: get_page made it a context
AcquiresSession(r) == open_ctx'[r] > open_ctx[r]

\* C29 as stated: no attempt is started, no session acquired, at a moment when
\* the breaker is OPEN
C29_NoAttemptWhileOpen ==
    [][\A r \in Requests : AcquiresSession(r) => breaker.state # "OPEN"]_vars

\* C29 amended: no call passes the breaker check while the breaker is OPEN: a
\* check that leaves the breaker OPEN is refused on the spot with no session
\* acquired, and only a call that passed its check acquires sessions
C29_NoAdmissionWhileOpen ==
    [][\A r \in Requests :
        /\ (Checks(r) /\ breaker'.state = "OPEN")
            => Refused(r) /\ ~AcquiresSession(r)
        /\ (Checks(r) /\ Admitted(r)) => breaker'.state \in {"CLOSED", "HALF_OPEN"}
        /\ AcquiresSession(r) => pc[r] = "attempt"]_vars

\* C29 witness: the breaker is OPEN and has just refused a call, while a call
\* admitted before it opened is navigating in the session it acquired
C29_Witness ==
    /\ breaker.state = "OPEN" /\ obs.refused
    /\ ~Elapsed(breaker.last_failure_time)
    /\ \E r1, r2 \in Requests :
        /\ FastFailed(r1)
        /\ pc[r2] = "goto" /\ open_ctx[r2] = 1 /\ open_page[r2] = 1

\* C30, in states: the loop variable of a call stays within 0..dob_retry_count,
\* and a call that returns the exhaustion result made its last attempt at index
\* dob_retry_count
C30_State ==
    \A r \in Requests :
        /\ attempt[r] \in 0..dob_retry_count
        /\ hist[r].failed_attempts <= dob_retry_count + 1
        /\ (pc[r] = "done" /\ result[r].error = "scrape_failed")
            => attempt[r] = dob_retry_count
        /\ hist[r].failed_attempts = dob_retry_count + 1
            => pc[r] = "done" /\ attempt[r] = dob_retry_count

\* C30, in steps: a call comes to the start of an attempt with index 0 the
\* first time and with the next index every other time: no index is used twice
C30_Step ==
    \A r \in Requests :
        (pc'[r] = "attempt" /\ <<pc'[r], attempt'[r]>> # <<pc[r], attempt[r]>>)
            => attempt'[r] = IF pc[r] = "getmgr" THEN 0 ELSE attempt[r] + 1

\* C30: a get_dob_status call always ends, after at most dob_retry_count + 1
\* attempts (indices 0..dob_retry_count), and after exactly that many when every
\* attempt fails
C30_BoundedAttempts ==
    /\ []C30_State
    /\ [][C30_Step]_vars
    /\ \A r \in {1} : (pc[r] = "getmgr") ~> (pc[r] \in {"done", "raised"})

\* C30 witness: with the largest retry setting, a call whose every attempt
\* failed, the last one at index dob_retry_count, has returned
C30_Witness ==
    \E r \in Requests :
        /\ dob_retry_count = MaxRetry
        /\ pc[r] = "done" /\ result[r].error = "scrape_failed"
        /\ attempt[r] = dob_retry_count
        /\ hist[r].failed_attempts = dob_retry_count + 1
        /\ open_ctx[r] = 0

\* C31: a request holds at most one context and one page at any time; while it
\* waits before its next attempt, or is about to acquire a session, it holds
\* none: the session of the attempt before was closed; and a step that acquires
\* a session starts from a request that holds none
C31_State ==
    \A r \in Requests :
        /\ open_ctx[r] <= 1 /\ open_page[r] <= 1
        /\ (pc[r] = "attempt") => (open_ctx[r] = 0 /\ open_page[r] = 0)

C31_Step ==
    \A r \in Requests :
        AcquiresSession(r) => (open_ctx[r] = 0 /\ open_page[r] = 0)

C31_OneSessionAtATime == []C31_State /\ [][C31_Step]_vars

\* an attempt has failed and the next attempt of the same call holds its session
C31_Witness ==
    /\ pc[1] = "goto" /\ attempt[1] >= 1 /\ hist[1].failed_attempts >= 1
    /\ open_ctx[1] = 1 /\ open_page[1] = 1

\* the attempts of window k of a call that has used the identities in `agents`
\* (indices from 0, as the loop variable): k*|pool| .. (k+1)*|pool|-1
Window(k, agents) ==
    {i \in 0..(Len(agents) - 1) :
        k * Cardinality(USER_AGENTS) <= i /\ i < (k + 1) * Cardinality(USER_AGENTS)}

\* C32: in every window k of |pool| consecutive attempts of one call, counted
\* from its first attempt, the identities used are pairwise distinct
C32_RotationRestarts ==
    \A r \in Requests :
        \A k \in 0..Len(hist[r].agents) :
            \A i, j \in Window(k, hist[r].agents) :
                (i # j) => (hist[r].agents[i + 1] # hist[r].agents[j + 1])

\* C33: once shutdown is over, no browser process the engine launched is alive
C33_ShutdownClosesBrowser ==
    (app.phase = "stopped") => (alive(browsers) = {})

\* the cells of a row that contain a date pattern, and those of them whose
\* leftmost pattern is a calendar date
DateCells(cells) == {i \in 1..Len(cells) : cells[i].dates # <<>>}
CalendarDateCells(cells) ==
    {i \in DateCells(cells) : ~strptime(cells[i].dates[1]).raised}
First(S) == CHOOSE i \in S : \A j \in S : i <= j
Last(S) == CHOOSE i \in S : \A j \in S : i >= j

\* YYYY-MM-DD written out for the dates used
Reformatted(d) ==
    CASE d = [month |-> 1, day |-> 5, year |-> 2020] ->
            <<"2", "0", "2", "0", "-", "0", "1", "-", "0", "5">>
      [] d = [month |-> 12, day |-> 31, year |-> 2021] ->
            <<"2", "0", "2", "1", "-", "1", "2", "-", "3", "1">>
      [] d = [month |-> 2, day |-> 30, year |-> 2020] ->
            <<"2", "0", "2", "0", "-", "0", "2", "-", "3", "0">>

\* the row was read: it has at least 3 cells and several of them hold a date
SeveralDates ==
    /\ probe.method = "events"
    /\ Len(probe.args[1]) >= 3
    /\ Cardinality(DateCells(probe.args[1])) >= 2

\* C34 as stated: the event of such a row has the date of the first cell that
\* holds a date pattern, reformatted
C34_FirstDateCell ==
    SeveralDates =>
        /\ Len(probe.value) = 1
        /\ probe.value[1].date =
                Reformatted(probe.args[1][First(DateCells(probe.args[1]))].dates[1])

\* C34: the event of such a row has the date of the last cell whose pattern is
\* a calendar date, reformatted; when no cell holds a calendar date, the date is
\* "Unknown" if there is an event at all
C34_LastCalendarDateCell ==
    SeveralDates =>
        LET cells == probe.args[1] IN
        IF CalendarDateCells(cells) # {}
        THEN /\ Len(probe.value) = 1
             /\ probe.value[1].date =
                    Reformatted(cells[Last(CalendarDateCells(cells))].dates[1])
        ELSE \A i \in 1..Len(probe.value) : probe.value[i].date = Unknown

\* a row whose first and last date cells hold different calendar dates, with a
\* cell that is no calendar date after the last: the event has the later date
C34_Witness ==
    /\ SeveralDates
    /\ probe.args[1] = <<[len |-> 10, dates |-> <<[month |-> 1, day |-> 5, year |-> 2020]>>],
                         [len |-> 10, dates |-> <<[month |-> 12, day |-> 31, year |-> 2021]>>],
                         [len |-> 10, dates |-> <<[month |-> 2, day |-> 30, year |-> 2020]>>]>>
    /\ probe.value = <<[date |-> <<"2", "0", "2", "1", "-", "1", "2", "-", "3", "1">>]>>

\* C35: a CLOSED breaker has counted fewer than failure_threshold consecutive
\* failures; an OPEN or HALF_OPEN breaker has counted at least failure_threshold
\* and has the time of its last failure
C35_BreakerInvariant ==
    /\ (breaker.state = "CLOSED") =>
            (breaker.consecutive_failures < failure_threshold)
    /\ (breaker.state \in {"OPEN", "HALF_OPEN"}) =>
            (/\ breaker.consecutive_failures >= failure_threshold
             /\ breaker.last_failure_time # None)

\* the breaker was opened, failed again while OPEN, and the cooldown is over:
\* it is HALF_OPEN with more than failure_threshold failures counted
C35_Witness ==
    /\ breaker.state = "HALF_OPEN"
    /\ breaker.consecutive_failures > failure_threshold
    /\ breaker.last_failure_time # None

\* a failure was recorded since the breaker had counted n failures, the last at t
FurtherFailure(t, n) ==
    \/ breaker.last_failure_time # Some(t)
    \/ breaker.consecutive_failures > n
    \/ (breaker.consecutive_failures > 0 /\ breaker.consecutive_failures < n)

\* C36: whenever the breaker is OPEN (early enough for the cooldown to end by
\* MaxTime), it becomes HALF_OPEN unless a further failure is recorded; and a
\* success reported while it is HALF_OPEN makes it CLOSED
C36_NoTerminalState ==
    /\ \A t \in 1..MaxTime, n \in 1..(failure_threshold + NumRequests) :
            (/\ breaker.state = "OPEN"
             /\ breaker.last_failure_time = Some(t)
             /\ breaker.consecutive_failures = n
             /\ t + cooldown_seconds <= MaxTime)
                ~> (breaker.state = "HALF_OPEN" \/ FurtherFailure(t, n))
    /\ [][\A r \in Requests :
            (breaker.state = "HALF_OPEN" /\ ReportsSuccess(r))
                => (breaker'.state = "CLOSED")]_vars

\* the suspension points of get_violation_history
HistLabels == {"h_page", "h_goto", "h_content", "h_teardown", "h_done", "h_raised"}

\* task r takes a step of a get_violation_history call
HistMoves(r) ==
    pc'[r] # pc[r] /\ (pc[r] \in HistLabels \/ pc'[r] \in HistLabels)

\* C37: no step of a history lookup changes the breaker, however the lookup
\* goes; and a lookup that starts goes on to get its page (or ends with the
\* exception of the engine), whatever the breaker says
C37_HistoryIgnoresBreaker ==
    [][\A r \in Requests :
        /\ HistMoves(r) => (breaker' = breaker)
        /\ (pc[r] = "idle" /\ pc'[r] \in HistLabels)
                => (pc'[r] \in {"h_page", "h_raised"})]_vars

\* a history lookup has navigated and read events while the breaker is OPEN and
\* refuses status calls
C37_Witness ==
    /\ breaker.state = "OPEN" /\ ~is_available(breaker, now).ret
    /\ pc[2] = "h_teardown" /\ events[2] > 0

\* task r is rejected with 429 in this step
Rejected(r) == pc[r] = "idle" /\ pc'[r] = "rl_429"

\* C38: for every identifier, the requests admitted in the _window_size seconds
\* up to now are at most the limit (every window ends at some time, and holds
\* all its requests in the states of that time); and a rejected request is not
\* recorded: nothing is admitted and no timestamp is added
C38_State ==
    \A i \in Identifiers :
        /\ Len(limiter.admitted[i]) <= rate_limit(i)
        /\ \A k \in 1..Len(limiter.admitted[i]) :
                /\ limiter.admitted[i][k] > now - _window_size
                /\ limiter.admitted[i][k] <= now

C38_Step ==
    \A r \in Requests :
        Rejected(r) =>
            /\ limiter'.admitted = limiter.admitted
            /\ \A i \in Identifiers :
                    Len(limiter'._requests[i]) <= Len(limiter._requests[i])

C38_WindowNeverExceeded == []C38_State /\ [][C38_Step]_vars

\* an identifier has used up its limit with requests admitted at different
\* times, one of which is still being served, and task 1 is rejected
C38_Witness ==
    \E i \in Identifiers :
        /\ Len(limiter.admitted[i]) = rate_limit(i)
        /\ limiter.admitted[i][1] < now
        /\ pc[1] = "rl_429"
        /\ pc[2] = "rl_next" /\ limiter.identifier[2] = i

\* C39: in every month of account, the requests counted in calls_this_month
\* are at most monthly_limit, and calls_this_month is their number
C39_CountedWithinLimit ==
    /\ \A m \in 1..MaxMonth : keys.counted[m] <= monthly_limit
    /\ keys.calls_this_month = keys.counted[keys.current_month]
    /\ keys.calls_this_month <= monthly_limit

\* requests that passed the check together were all served: more responses
\* below 400 than monthly_limit were sent in the month, and monthly_limit of
\* them were counted
C39_Witness ==
    /\ keys.served[1] > monthly_limit
    /\ keys.counted[1] = monthly_limit

====
